---- MODULE Spec2Model ----
(***************************************************************************)
(* Model of dronecan_gui_tool/am32_rtttl.py: the RTTTL <-> AM32 startup    *)
(* melody codec (class AM32_Rtttl).                                        *)
(*                                                                         *)
(* Representation.                                                         *)
(*   - A Python str is a sequence of one-character strings.                *)
(*   - A bytearray is a sequence of integers 0..255; the byte the source   *)
(*     writes as b[i] is b[i + 1] here (At, SetAt).                        *)
(*   - A frequency produced by the parser is an integer number of tenths   *)
(*     of a hertz (the source rounds it to one decimal).                   *)
(*   - A duration produced by the parser is the exact fraction             *)
(*     [num, den] of milliseconds.                                         *)
(*   - A duration inside the decoder is an integer number of 1/10000 ms.   *)
(*   - A raised exception is recorded by its kind in a field or variable   *)
(*     named raised ("none" when the call returned).                       *)
(***************************************************************************)
EXTENDS Integers, Sequences, FiniteSets, TLC

(***************************************************************************)
(* Python built-ins used by the source.                                    *)
(***************************************************************************)
DIGITS == <<"0", "1", "2", "3", "4", "5", "6", "7", "8", "9">>

DigitValue(c) == (CHOOSE d \in 1..10 : DIGITS[d] = c) - 1

RECURSIVE int_acc(_, _)
int_acc(s, acc) ==
    IF s = <<>> THEN acc ELSE int_acc(Tail(s), 10 * acc + DigitValue(Head(s)))

\* int(s) for a string of decimal digits
int(s) == int_acc(s, 0)

RECURSIVE str(_)
\* str(n) for an integer n >= 0
str(n) == IF n < 10 THEN <<DIGITS[n + 1]>> ELSE str(n \div 10) \o <<DIGITS[(n % 10) + 1]>>

min(a, b) == IF a < b THEN a ELSE b

abs(a) == IF a < 0 THEN -a ELSE a

RECURSIVE gcd(_, _)
gcd(a, b) == IF b = 0 THEN a ELSE gcd(b, a % b)

\* round(num / den) for den > 0: to the nearest integer, a tie to the even one
round(num, den) ==
    LET q == num \div den
        r == num % den
    IN  IF 2 * r > den \/ (2 * r = den /\ q % 2 = 1) THEN q + 1 ELSE q

RECURSIVE split_acc(_, _, _, _)
split_acc(s, sep, cur, acc) ==
    IF s = <<>> THEN Append(acc, cur)
    ELSE IF Head(s) = sep
         THEN split_acc(Tail(s), sep, <<>>, Append(acc, cur))
         ELSE split_acc(Tail(s), sep, Append(cur, Head(s)), acc)

\* s.split(sep): the pieces of s between the occurrences of sep
split(s, sep) == split_acc(s, sep, <<>>, <<>>)

RECURSIVE join(_, _)
\* sep.join(parts)
join(parts, sep) ==
    IF parts = <<>> THEN <<>>
    ELSE IF Len(parts) = 1 THEN parts[1]
    ELSE parts[1] \o <<sep>> \o join(Tail(parts), sep)

RECURSIVE rstrip(_, _)
\* s.rstrip(c)
rstrip(s, c) ==
    IF s # <<>> /\ s[Len(s)] = c THEN rstrip(SubSeq(s, 1, Len(s) - 1), c) ELSE s

\* b[i] and b[i] = v on a bytearray (0-based in the source)
At(b, i) == b[i + 1]

SetAt(b, i, v) == [b EXCEPT ![i + 1] = v]

\* bytearray(n)
bytearray(n) == [i \in 1..n |-> 0]

(***************************************************************************)
(* get_name                                                                *)
(***************************************************************************)
Unknown == <<"U", "n", "k", "n", "o", "w", "n">>

get_name(name) == IF name = <<>> THEN Unknown ELSE name

(***************************************************************************)
(* get_defaults                                                            *)
(***************************************************************************)
ALLOWED_DURATION == {str(d) : d \in {1, 2, 4, 8, 16, 32}}

ALLOWED_OCTAVE == {str(o) : o \in {4, 5, 6, 7}}

ALLOWED_BPM_VALUES ==
    {25, 28, 31, 35, 40, 45, 50, 56, 63, 70, 80, 90, 100,
     112, 125, 140, 160, 180, 200, 225, 250, 285, 320, 355,
     400, 450, 500, 565, 570, 635, 715, 800, 900}

ALLOWED_BPM == {str(b) : b \in ALLOWED_BPM_VALUES}

DEFAULT_VALUES == [raised |-> "none", duration |-> <<"4">>, octave |-> <<"6">>,
                   bpm |-> <<"6", "3">>]

\* KEY, VAL = value.split('=') with other than two pieces
UnpackError == [raised |-> "ValueError_unpack", duration |-> <<>>, octave |-> <<>>,
                bpm |-> <<>>]

\* get_defaults_value without the tests against the allowed values
get_defaults_value_any(value, D) ==
    LET kv == split(value, "=") IN
    IF Len(kv) # 2 THEN UnpackError
    ELSE LET KEY == kv[1]
             VAL == kv[2]
         IN  IF KEY = <<"d">> THEN [D EXCEPT !.duration = VAL]
             ELSE IF KEY = <<"o">> THEN [D EXCEPT !.octave = VAL]
             ELSE IF KEY = <<"b">> THEN [D EXCEPT !.bpm = VAL]
             ELSE D

get_defaults_value(value, D) ==
    LET kv == split(value, "=") IN
    IF Len(kv) # 2 THEN UnpackError
    ELSE LET KEY == kv[1]
             VAL == kv[2]
         IN  IF KEY = <<"d">> /\ VAL \in ALLOWED_DURATION THEN [D EXCEPT !.duration = VAL]
             ELSE IF KEY = <<"o">> /\ VAL \in ALLOWED_OCTAVE THEN [D EXCEPT !.octave = VAL]
             ELSE IF KEY = <<"b">> /\ VAL \in ALLOWED_BPM THEN [D EXCEPT !.bpm = VAL]
             ELSE D

RECURSIVE get_defaults_loop(_, _)
get_defaults_loop(VALUES, D) ==
    IF VALUES = <<>> \/ D.raised # "none" THEN D
    ELSE IF Head(VALUES) = <<>> THEN get_defaults_loop(Tail(VALUES), D)
    ELSE get_defaults_loop(Tail(VALUES), get_defaults_value(Head(VALUES), D))

get_defaults(defaults) == get_defaults_loop(split(defaults, ","), DEFAULT_VALUES)

(***************************************************************************)
(* Note / frequency model                                                  *)
(***************************************************************************)
NOTE_ORDER == << <<"c">>, <<"c", "#">>, <<"d">>, <<"d", "#">>, <<"e">>, <<"f">>,
                 <<"f", "#">>, <<"g">>, <<"g", "#">>, <<"a">>, <<"a", "#">>, <<"b">> >>

REST == <<"p">>

MIDDLE_OCTAVE == 4

SEMITONES_IN_OCTAVE == 12

InNoteOrder(note) == \E i \in 1..Len(NOTE_ORDER) : NOTE_ORDER[i] = note

\* NOTE_ORDER.index(note), for a note of NOTE_ORDER
NoteIndex(note) == (CHOOSE i \in 1..Len(NOTE_ORDER) : NOTE_ORDER[i] = note) - 1

_calculate_semitones_from_c4(note, octave) ==
    NoteIndex(note) + (octave - MIDDLE_OCTAVE) * SEMITONES_IN_OCTAVE

\* round(261.63 * 2^(N / 12) * 10) for N = -36 .. 59 (c1 .. b8), the value
\* the source computes in floating point; entry N + 37
FREQUENCY_TENTHS ==
    <<327, 346, 367, 389, 412, 437, 463, 490, 519, 550, 583, 617,
      654, 693, 734, 778, 824, 873, 925, 980, 1038, 1100, 1165, 1235,
      1308, 1386, 1468, 1556, 1648, 1746, 1850, 1960, 2077, 2200, 2331, 2469,
      2616, 2772, 2937, 3111, 3296, 3492, 3700, 3920, 4153, 4400, 4662, 4939,
      5233, 5544, 5873, 6223, 6593, 6985, 7400, 7840, 8306, 8800, 9323, 9878,
      10465, 11087, 11747, 12445, 13185, 13969, 14800, 15680, 16612, 17600, 18647, 19756,
      20930, 22175, 23494, 24891, 26371, 27939, 29600, 31360, 33225, 35201, 37294, 39511,
      41861, 44350, 46987, 49781, 52741, 55877, 59200, 62720, 66450, 70401, 74587, 79023>>

\* get_data.calculate_frequency, in tenths of a hertz (note is 'p' or in NOTE_ORDER)
calculate_frequency(note, octave) ==
    IF note = REST THEN 0
    ELSE FREQUENCY_TENTHS[_calculate_semitones_from_c4(note, octave) + 37]

\* the dot multiplier of get_data.calculate_duration, in sixteenths
DotMultiplier16(dots) ==
    IF dots = 4 THEN 31 ELSE IF dots = 3 THEN 30 ELSE IF dots = 2 THEN 28
    ELSE IF dots = 1 THEN 24 ELSE 16

\* get_data.calculate_duration with beat_every = 60000 / bpm: milliseconds as a fraction
calculate_duration(bpm, note_duration, dots) ==
    [num |-> 60000 * 4 * DotMultiplier16(dots), den |-> bpm * note_duration * 16]

\* _calculate_am32_temp3_from_frequency without the term 399.3 / 24.72
_calculate_am32_temp3_no_offset(F) ==
    IF F = 0 THEN 0 ELSE round(500000000, 1236 * F)

\* _calculate_am32_temp3_from_frequency: round(1000000 / (freq * 24.72) - 399.3 / 24.72)
\* = round((500000000 - 19965 F) / (1236 F)) for freq = F / 10
_calculate_am32_temp3_from_frequency(F) ==
    IF F = 0 THEN 0 ELSE round(500000000 - 19965 * F, 1236 * F)

(***************************************************************************)
(* get_data: NOTE_REGEX.match and the parsed notes                         *)
(***************************************************************************)
\* the alternatives of group 1, in the order the regex tries them
DURATION_ALTERNATIVES ==
    << <<"1">>, <<"2">>, <<"4">>, <<"8">>, <<"1", "6">>, <<"3", "2">>, <<"6", "4">> >>

NOTE_LETTERS == {"a", "b", "c", "d", "e", "f", "g", "h", "p"}

OCTAVE_DIGITS == {"1", "2", "3", "4", "5", "6", "7", "8"}

IsPrefix(p, s) == Len(p) <= Len(s) /\ SubSeq(s, 1, Len(p)) = p

LetterAt(s, i) == i <= Len(s) /\ s[i] \in NOTE_LETTERS

RECURSIVE DotsFrom(_, _)
\* the length of the run of '.' that starts at position i
DotsFrom(s, i) == IF i <= Len(s) /\ s[i] = "." THEN 1 + DotsFrom(s, i + 1) ELSE 0

\* group 1: the first alternative that lets the rest of the pattern match
\* (the regex backtracks from '1' to '16'); <<>> when the group does not take part
MatchGroup1(s) ==
    LET ok == {k \in 1..Len(DURATION_ALTERNATIVES) :
                  /\ IsPrefix(DURATION_ALTERNATIVES[k], s)
                  /\ LetterAt(s, Len(DURATION_ALTERNATIVES[k]) + 1)}
    IN  IF ok = {} THEN <<>>
        ELSE DURATION_ALTERNATIVES[CHOOSE k \in ok : \A j \in ok : k <= j]

NoMatch == [matched |-> FALSE, g1 |-> <<>>, g2 |-> <<>>, g3 |-> 0, g4 |-> <<>>, g5 |-> 0]

\* group 2 at position p: a note letter and a '#' if one follows
Group2At(s, p) == IF p + 1 <= Len(s) /\ s[p + 1] = "#" THEN <<s[p], "#">> ELSE <<s[p]>>

\* group 4 at position p: an octave digit if there is one
Group4At(s, p) == IF p <= Len(s) /\ s[p] \in OCTAVE_DIGITS THEN <<s[p]>> ELSE <<>>

match_g5(s, g1, g2, g3, g4) ==
    [matched |-> TRUE, g1 |-> g1, g2 |-> g2, g3 |-> g3, g4 |-> g4,
     g5 |-> DotsFrom(s, Len(g1) + Len(g2) + g3 + Len(g4) + 1)]

match_g4(s, g1, g2, g3) == match_g5(s, g1, g2, g3, Group4At(s, Len(g1) + Len(g2) + g3 + 1))

match_g3(s, g1, g2) == match_g4(s, g1, g2, DotsFrom(s, Len(g1) + Len(g2) + 1))

match_g2(s, g1) ==
    IF ~LetterAt(s, Len(g1) + 1) THEN NoMatch ELSE match_g3(s, g1, Group2At(s, Len(g1) + 1))

\* NOTE_REGEX.match(note): the groups from left to right, each greedy; groups 3
\* and 5 by their number of dots, an absent group 1 or 4 as the empty string
NOTE_REGEX_match(s) == match_g2(s, MatchGroup1(s))

NoNote == [matched |-> FALSE, raised |-> "none", note |-> <<>>,
           duration |-> [num |-> 0, den |-> 1], frequency |-> 0]

\* lines 255-264 for a match m: the parsed note, or the ValueError of
\* NOTE_ORDER.index for a note that is not in NOTE_ORDER
note_of_match(NOTE, NOTE_DURATION, NOTE_OCTAVE, NOTE_DOTS, bpm) ==
    IF NOTE # REST /\ ~InNoteOrder(NOTE)
    THEN [matched |-> TRUE, raised |-> "ValueError_not_in_list", note |-> NOTE,
          duration |-> [num |-> 0, den |-> 1], frequency |-> 0]
    ELSE [matched |-> TRUE, raised |-> "none", note |-> NOTE,
          duration |-> calculate_duration(bpm, NOTE_DURATION, NOTE_DOTS),
          frequency |-> calculate_frequency(NOTE, NOTE_OCTAVE)]

\* NOTE_DOTS of line 258
note_dots(g3, g5) == IF g3 # 0 THEN g3 ELSE IF g5 # 0 THEN g5 ELSE 0

parsed_note(m, defaults) ==
    IF ~m.matched THEN NoNote
    ELSE note_of_match(IF m.g2 = <<"h">> THEN <<"b">> ELSE m.g2,
                       IF m.g1 # <<>> THEN int(m.g1) ELSE int(defaults.duration),
                       IF m.g4 # <<>> THEN int(m.g4) ELSE int(defaults.octave),
                       note_dots(m.g3, m.g5),
                       int(defaults.bpm))

NoteOf(n) == [note |-> n.note, duration |-> n.duration, frequency |-> n.frequency]

RECURSIVE get_data_loop(_, _, _)
\* one pass of the loop of lines 252-264, n being what the token gave
get_data_pass(NOTES, defaults, parsed_notes, n) ==
    IF ~n.matched THEN get_data_loop(NOTES, defaults, parsed_notes)
    ELSE IF n.raised # "none" THEN [raised |-> n.raised, notes |-> <<>>]
    ELSE get_data_loop(NOTES, defaults, Append(parsed_notes, NoteOf(n)))

get_data_loop(NOTES, defaults, parsed_notes) ==
    IF NOTES = <<>> THEN [raised |-> "none", notes |-> parsed_notes]
    ELSE get_data_pass(Tail(NOTES), defaults, parsed_notes,
                       parsed_note(NOTE_REGEX_match(Head(NOTES)), defaults))

get_data(melody_section, defaults) == get_data_loop(split(melody_section, ","), defaults, <<>>)

(***************************************************************************)
(* parse                                                                   *)
(***************************************************************************)
REQUIRED_SECTIONS_NUM == 3

ParseFailure(kind) == [raised |-> kind, name |-> <<>>, defaults |-> DEFAULT_VALUES,
                       melody |-> <<>>]

\* lines 23-29
parse_melody(NAME, DEFAULTS, MELODY) ==
    IF MELODY.raised # "none" THEN ParseFailure(MELODY.raised)
    ELSE [raised |-> "none", name |-> NAME, defaults |-> DEFAULTS, melody |-> MELODY.notes]

\* lines 21-23
parse_sections(SECTIONS, DEFAULTS) ==
    IF DEFAULTS.raised # "none" THEN ParseFailure(DEFAULTS.raised)
    ELSE parse_melody(get_name(SECTIONS[1]), DEFAULTS, get_data(SECTIONS[3], DEFAULTS))

\* parse_split accepting a text of more than three sections
parse_split_at_least(SECTIONS) ==
    IF Len(SECTIONS) < REQUIRED_SECTIONS_NUM THEN ParseFailure("ValueError_invalid_rtttl")
    ELSE parse_sections(SECTIONS, get_defaults(SECTIONS[2]))

\* lines 16-19
parse_split(SECTIONS) ==
    IF Len(SECTIONS) # REQUIRED_SECTIONS_NUM THEN ParseFailure("ValueError_invalid_rtttl")
    ELSE parse_sections(SECTIONS, get_defaults(SECTIONS[2]))

parse(rtttl_text) == parse_split(split(rtttl_text, ":"))

(***************************************************************************)
(* Decoder arithmetic                                                      *)
(***************************************************************************)
\* _calculate_frequency_from_am32_temp3: 1000000 / (24.72 * temp3 + 399.3) Hz
\* = 50000000000 / (1236 * temp3 + 19965) mHz, truncated to a whole millihertz
_calculate_frequency_from_am32_temp3(temp3) ==
    IF temp3 = 0 THEN 0
    ELSE LET D == 1236 * temp3 + 19965
         IN  (50000000 \div D) * 1000 + ((50000000 % D) * 1000) \div D

\* ceil(261630 * 2^((n - 0.5) / 12)) for n = -10 .. 39: the least frequency (mHz)
\* for which round(12 * log2(freq / C4)) is n; entry n + 11
SEMITONE_LOWER_MILLIHZ ==
    <<142655, 151138, 160125, 169647, 179734, 190422, 201745, 213741, 226451, 239916,
      254182, 269297, 285310, 302275, 320250, 339293, 359468, 380843, 403489, 427482,
      452901, 479832, 508364, 538593, 570620, 604550, 640499, 678585, 718935, 761686,
      806978, 854963, 905802, 959664, 1016728, 1077186, 1141239, 1209100, 1280997, 1357169,
      1437870, 1523371, 1613955, 1709926, 1811603, 1919327, 2033456, 2154371, 2282477,
      2418200>>

\* note_semitones = round(SEMITONES_IN_OCTAVE * math.log2(freq / C4)), freq in mHz
note_semitones(freq) ==
    LET reached == {k \in 1..Len(SEMITONE_LOWER_MILLIHZ) : freq >= SEMITONE_LOWER_MILLIHZ[k]}
    IN  (CHOOSE k \in reached : \A j \in reached : j <= k) - 11

\* note_index of _calculate_note_name_from_frequency (line 284); Python's % is
\* never negative for a positive modulus, as is TLA+'s
note_index(freq) ==
    LET n == note_semitones(freq) IN
    IF n >= 0 THEN n % SEMITONES_IN_OCTAVE ELSE 12 + (n % SEMITONES_IN_OCTAVE)

\* _calculate_note_name_from_frequency, where NOTE_ORDER[note_index] exists
_calculate_note_name_from_frequency(freq) ==
    IF freq = 0 THEN REST ELSE NOTE_ORDER[note_index(freq) + 1]

_calculate_note_octave_from_frequency(freq) ==
    IF freq = 0 THEN 0 ELSE MIDDLE_OCTAVE + (note_semitones(freq) \div SEMITONES_IN_OCTAVE)

\* round(10000000 / (261.63 * 2^(n / 12))) for n = -10 .. 39: the period
\* 1000 / _calculate_frequency(note, octave) in 1/10000 ms; entry n + 11
CANONICAL_PERIOD ==
    <<68104, 64281, 60674, 57268, 54054, 51020, 48157, 45454, 42903, 40495,
      38222, 36077, 34052, 32141, 30337, 28634, 27027, 25510, 24078, 22727,
      21451, 20247, 19111, 18038, 17026, 16070, 15168, 14317, 13513, 12755,
      12039, 11363, 10726, 10124, 9555, 9019, 8513, 8035, 7584, 7159,
      6757, 6378, 6020, 5682, 5363, 5062, 4778, 4510, 4256, 4018>>

\* 1000 / _calculate_frequency(note, octave), in 1/10000 ms
_calculate_period(note, octave) ==
    CANONICAL_PERIOD[_calculate_semitones_from_c4(note, octave) + 11]

\* dur of line 131, in 1/10000 ms
cell_duration(count, freq, note, octave) ==
    IF freq = 0 THEN count * 10000 ELSE _calculate_period(note, octave) * count

\* round(duration / smallest_musical_duration) of quantized_duration, for bpm > 0:
\* round(duration * bpm / 37500000) for a duration in 1/10000 ms, computed in
\* two parts so that no product overflows
quantized_steps(duration, bpm) ==
    LET a == duration \div 3750
        b == duration % 3750
        T == a * bpm + ((b * bpm) \div 3750)
        low == (b * bpm) % 3750
        q == T \div 10000
        r == T % 10000
    IN  IF r > 5000 \/ (r = 5000 /\ low > 0) \/ (r = 5000 /\ low = 0 /\ q % 2 = 1)
        THEN q + 1 ELSE q

RECURSIVE pow2_floor(_)
\* 2 ** math.floor(math.log2(m)) for an integer m >= 1
pow2_floor(m) == IF m < 2 THEN 1 ELSE 2 * pow2_floor(m \div 2)

IsPowerOfTwo(m) == m >= 1 /\ pow2_floor(m) = m

(***************************************************************************)
(* from_am32_startup_melody                                                *)
(***************************************************************************)
PLACEHOLDER_TAIL ==
    <<":", "d", "=", "1", ",", "o", "=", "4", ",", "b", "p", "m", "=", "1", "0", "0", ":">>

RECURSIVE melody_notes_loop_any_count(_, _, _)
\* melody_notes_loop without the test of the count byte of the cell before
melody_notes_loop_any_count(data, i, melody_notes) ==
    IF i >= Len(data) - 1 THEN [raised |-> "none", notes |-> melody_notes]
    ELSE LET freq == _calculate_frequency_from_am32_temp3(At(data, i + 1)) IN
         IF freq # 0 /\ note_index(freq) >= Len(NOTE_ORDER)
         THEN [raised |-> "IndexError", notes |-> <<>>]
         ELSE LET note == _calculate_note_name_from_frequency(freq)
                  octave == _calculate_note_octave_from_frequency(freq)
                  dur == cell_duration(At(data, i), freq, note, octave)
                  last == Len(melody_notes)
              IN  IF dur > 0
                  THEN IF /\ melody_notes # <<>>
                          /\ abs(melody_notes[last].frequency - freq) < 10
                       THEN melody_notes_loop_any_count(data, i + 2,
                                [melody_notes EXCEPT ![last].duration = @ + dur])
                       ELSE melody_notes_loop_any_count(data, i + 2,
                                Append(melody_notes,
                                       [duration |-> dur, frequency |-> freq,
                                        musicalNote |-> note, musicalOctave |-> octave]))
                  ELSE [raised |-> "none", notes |-> melody_notes]

RECURSIVE melody_notes_loop_skips_zero(_, _, _)
\* melody_notes_loop going on to the next cell after a cell of no duration
melody_notes_loop_skips_zero(data, i, melody_notes) ==
    IF i >= Len(data) - 1 THEN [raised |-> "none", notes |-> melody_notes]
    ELSE LET freq == _calculate_frequency_from_am32_temp3(At(data, i + 1)) IN
         IF freq # 0 /\ note_index(freq) >= Len(NOTE_ORDER)
         THEN [raised |-> "IndexError", notes |-> <<>>]
         ELSE LET note == _calculate_note_name_from_frequency(freq)
                  octave == _calculate_note_octave_from_frequency(freq)
                  dur == cell_duration(At(data, i), freq, note, octave)
                  last == Len(melody_notes)
              IN  IF dur > 0
                  THEN IF /\ melody_notes # <<>>
                          /\ abs(melody_notes[last].frequency - freq) < 10
                          /\ At(data, i - 2) = 255
                       THEN melody_notes_loop_skips_zero(data, i + 2,
                                [melody_notes EXCEPT ![last].duration = @ + dur])
                       ELSE melody_notes_loop_skips_zero(data, i + 2,
                                Append(melody_notes,
                                       [duration |-> dur, frequency |-> freq,
                                        musicalNote |-> note, musicalOctave |-> octave]))
                  ELSE melody_notes_loop_skips_zero(data, i + 2, melody_notes)

RECURSIVE melody_notes_loop(_, _, _)
\* the loop of lines 127-144 from cell index i on
melody_notes_loop(data, i, melody_notes) ==
    IF i >= Len(data) - 1 THEN [raised |-> "none", notes |-> melody_notes]
    ELSE LET freq == _calculate_frequency_from_am32_temp3(At(data, i + 1)) IN
         IF freq # 0 /\ note_index(freq) >= Len(NOTE_ORDER)
         THEN [raised |-> "IndexError", notes |-> <<>>]
         ELSE LET note == _calculate_note_name_from_frequency(freq)
                  octave == _calculate_note_octave_from_frequency(freq)
                  dur == cell_duration(At(data, i), freq, note, octave)
                  last == Len(melody_notes)
              IN  IF dur > 0
                  THEN IF /\ melody_notes # <<>>
                          /\ abs(melody_notes[last].frequency - freq) < 10
                          /\ At(data, i - 2) = 255
                       THEN melody_notes_loop(data, i + 2,
                                [melody_notes EXCEPT ![last].duration = @ + dur])
                       ELSE melody_notes_loop(data, i + 2,
                                Append(melody_notes,
                                       [duration |-> dur, frequency |-> freq,
                                        musicalNote |-> note, musicalOctave |-> octave]))
                  ELSE [raised |-> "none", notes |-> melody_notes]

\* one pass of the loop of lines 156-164 writes one token
token_string(rtttl_duration, is_dotted_note, item, defaults) ==
    (IF rtttl_duration = defaults.duration THEN <<>> ELSE str(rtttl_duration))
    \o item.musicalNote
    \o (IF item.musicalOctave = defaults.octave \/ item.musicalOctave = 0
        THEN <<>> ELSE str(item.musicalOctave))
    \o (IF is_dotted_note THEN <<".">> ELSE <<>>)
    \o <<",">>

RECURSIVE duration_tokens(_, _)
\* The loop of lines 156-164 as the sequence of (rtttl_duration, is_dotted_note).
\* musical_duration is m / 64 + e, where e is the rounding error of the float
\* expression round(d / smallest) * smallest / full_note_duration: zero or of
\* the size of one unit in the last place, its sign given by delta.
duration_tokens(m, delta) ==
    IF ~(m > 1 \/ (m = 1 /\ delta > 0)) THEN <<>>
    ELSE IF m > 96
         THEN <<[rtttl_duration |-> 1, is_dotted_note |-> TRUE, steps |-> 96]>>
              \o duration_tokens(m - 96, delta)
         ELSE LET p == IF IsPowerOfTwo(m) /\ delta < 0 THEN m \div 2 ELSE pow2_floor(m)
                  rtttl_duration == IF p >= 64 THEN 1 ELSE 64 \div p
              IN  <<[rtttl_duration |-> rtttl_duration,
                     is_dotted_note |-> (m > p \/ (m = p /\ delta > 0)),
                     steps |-> m]>>

RECURSIVE tokens_string(_, _, _)
tokens_string(tokens, item, defaults) ==
    IF tokens = <<>> THEN <<>>
    ELSE token_string(tokens[1].rtttl_duration, tokens[1].is_dotted_note, item, defaults)
         \o tokens_string(Tail(tokens), item, defaults)

\* the signs the rounding error of musical_duration can have for q steps: the
\* expression is exact when q is a power of two, and its error changes the
\* tokens only when more than 1.5 full notes leave a power of two
NoiseChoices(q) ==
    IF q > 96 /\ IsPowerOfTwo(((q - 1) % 96) + 1) THEN {-1, 0, 1} ELSE {0}

RECURSIVE melody_string_loop(_, _, _, _)
\* the loop of lines 153-164 over melody_notes from item k on
melody_string_loop(melody_notes, k, defaults, noise) ==
    IF k > Len(melody_notes) THEN <<>>
    ELSE tokens_string(duration_tokens(quantized_steps(melody_notes[k].duration, defaults.bpm),
                                       noise[k]),
                       melody_notes[k], defaults)
         \o melody_string_loop(melody_notes, k + 1, defaults, noise)

header_defaults(data) ==
    [bpm |-> At(data, 0) * 256 + At(data, 1), octave |-> At(data, 2), duration |-> At(data, 3)]

\* lines 120-166, cells being what the loop of lines 127-144 gave
from_am32_output(melody_name, defaults, cells, noise) ==
    IF cells.raised # "none" THEN [raised |-> cells.raised, string |-> <<>>]
    ELSE IF defaults.bpm = 0 THEN [raised |-> "ZeroDivisionError", string |-> <<>>]
    ELSE [raised |-> "none",
          string |-> melody_name \o <<":", "b", "=">> \o str(defaults.bpm)
                     \o <<",", "o", "=">> \o str(defaults.octave)
                     \o <<",", "d", "=">> \o str(defaults.duration) \o <<":">>
                     \o rstrip(melody_string_loop(cells.notes, 1, defaults, noise), ",")]

\* lines 120-166: a buffer of at least 4 bytes
from_am32_body(startup_melody_data, melody_name, noise) ==
    from_am32_output(melody_name, header_defaults(startup_melody_data),
                     melody_notes_loop(startup_melody_data, 4, <<>>), noise)

\* lines 117-166: a buffer that has a byte other than 0
from_am32_nonzero(startup_melody_data, melody_name, noise) ==
    IF Len(startup_melody_data) < 4
    THEN [raised |-> "none", string |-> melody_name \o PLACEHOLDER_TAIL]
    ELSE from_am32_body(startup_melody_data, melody_name, noise)

\* from_am32_startup_melody without the test of line 114
from_am32_without_zero_test(startup_melody_data, melody_name, noise) ==
    IF Len(startup_melody_data) < 4
    THEN [raised |-> "none", string |-> melody_name \o PLACEHOLDER_TAIL]
    ELSE from_am32_body(startup_melody_data, melody_name, noise)

\* from_am32_startup_melody with len(startup_melody_data) < 3 on line 117: the
\* header of a buffer of 3 bytes is read, and startup_melody_data[3] is out of range
from_am32_short_below_3(startup_melody_data, melody_name, noise) ==
    IF \A k \in 1..Len(startup_melody_data) : startup_melody_data[k] = 0
    THEN [raised |-> "none", string |-> <<>>]
    ELSE IF Len(startup_melody_data) < 3
    THEN [raised |-> "none", string |-> melody_name \o PLACEHOLDER_TAIL]
    ELSE IF Len(startup_melody_data) = 3
    THEN [raised |-> "IndexError", string |-> <<>>]
    ELSE from_am32_body(startup_melody_data, melody_name, noise)

\* from_am32_startup_melody for a bytearray; noise[k] is the sign of the float
\* rounding error in the musical duration of the k-th logical note
from_am32_startup_melody(startup_melody_data, melody_name, noise) ==
    IF \A k \in 1..Len(startup_melody_data) : startup_melody_data[k] = 0
    THEN [raised |-> "none", string |-> <<>>]
    ELSE from_am32_nonzero(startup_melody_data, melody_name, noise)

\* the logical notes from_am32_startup_melody builds (empty when it returns early)
melody_notes_of(data) ==
    IF Len(data) < 4 \/ (\A k \in 1..Len(data) : data[k] = 0) THEN <<>>
    ELSE melody_notes_loop(data, 4, <<>>).notes

(***************************************************************************)
(* Inputs of the model                                                     *)
(***************************************************************************)
\* the most note tokens in an input text
MaxNotes == 2

\* the longest requested buffer
MaxLength == 9

\* the most cells in a buffer handed to the decoder directly
MaxCells == 2

MELODY_NAME == <<"m">>

\* defaults sections: '', 'b=900', 'o=4,d=32,b=570', 'b=25,o=5', 'd=8,o=9,q=1,d=3',
\* 'd', 'd=4=4'
DEFAULTS_SAMPLES ==
    { <<>>,
      <<"b", "=", "9", "0", "0">>,
      <<"o", "=", "4", ",", "d", "=", "3", "2", ",", "b", "=", "5", "7", "0">>,
      <<"b", "=", "2", "5", ",", "o", "=", "5">>,
      <<"d", "=", "8", ",", "o", "=", "9", ",", "q", "=", "1", ",", "d", "=", "3">>,
      <<"d">>,
      <<"d", "=", "4", "=", "4">> }

\* note tokens: 'c', '64c', '1c', '8p', 'p', 'a3', 'c8', '16a#.', '8c..', '4h.5.',
\* 'e#', 'x'
TOKEN_SAMPLES ==
    { <<"c">>,
      <<"6", "4", "c">>,
      <<"1", "c">>,
      <<"8", "p">>,
      <<"p">>,
      <<"a", "3">>,
      <<"c", "8">>,
      <<"1", "6", "a", "#", ".">>,
      <<"8", "c", ".", ".">>,
      <<"4", "h", ".", "5", ".">>,
      <<"e", "#">>,
      <<"x">> }

RECURSIVE SeqsUpTo(_, _)
\* the sequences of at most n elements of S
SeqsUpTo(S, n) ==
    IF n = 0 THEN {<<>>}
    ELSE LET shorter == SeqsUpTo(S, n - 1)
         IN  shorter \cup {Append(q, x) : q \in shorter, x \in S}

\* well-formed texts name:defaults:notes, the empty text, and texts with 1, 2
\* and 4 sections
TEXTS ==
    {MELODY_NAME \o <<":">> \o d \o <<":">> \o join(notes, ",") :
        d \in DEFAULTS_SAMPLES, notes \in SeqsUpTo(TOKEN_SAMPLES, MaxNotes)}
    \cup { <<>>, <<"m">>, <<"m", ":", "c">>, <<"m", ":", ":", "c", ":", "c">> }

\* the text of the self-test, line 311
BLUEJAY ==
    <<"b", "l", "u", "e", "j", "a", "y", ":", "b", "=", "5", "7", "0", ",", "o", "=", "4",
       ",", "d", "=", "3", "2", ":", "4", "b", ",", "p", ",", "4", "e", "5", ",", "p", ",",
       "4", "b", ",", "p", ",", "4", "f", "#", "5", ",", "2", "p", ",", "4", "e", "5", ",",
       "2", "b", "5", ",", "8", "b", "5">>

\* the length of the self-test, line 316
BLUEJAY_LENGTH == 128

\* one text per pitch parse can produce: 'm:b=900:<note><octave>', for the 12
\* notes of NOTE_ORDER and the octaves 1 to 8
PITCH_TEXTS ==
    {<<"m", ":", "b", "=", "9", "0", "0", ":">> \o NOTE_ORDER[k] \o <<o>> :
        k \in 1..Len(NOTE_ORDER), o \in OCTAVE_DIGITS}

\* 'm:b=355:1a.,8a': the first note takes 1785 = 7 * 255 pulses, the second is
\* of the same pitch
SAME_PITCH_TEXT ==
    <<"m", ":", "b", "=", "3", "5", "5", ":", "1", "a", ".", ",", "8", "a">>

\* the length that holds the header and the 8 cells of SAME_PITCH_TEXT
SAME_PITCH_LENGTH == 4 + 2 * 8

\* the length that holds the header and one cell
PITCH_LENGTH == 4 + 2

LENGTHS == 0..MaxLength

HEADER_SAMPLES ==
    { <<0, 63, 6, 4>>, <<3, 132, 4, 32>>, <<0, 0, 4, 4>>, <<0, 0, 0, 0>>, <<0, 63, 255, 4>> }

CELL_SAMPLES ==
    { <<0, 0>>, <<255, 23>>, <<24, 23>>, <<255, 0>>, <<10, 0>>, <<1, 1>>, <<5, 200>>,
      <<0, 23>>, <<255, 66>> }

RECURSIVE Flatten(_)
Flatten(seqs) == IF seqs = <<>> THEN <<>> ELSE Head(seqs) \o Flatten(Tail(seqs))

\* a header and one cell of 255 pulses, for every pitch code but 0
CODE_BUFFERS == {<<0, 63, 6, 4, 255, code>> : code \in 1..255}

\* a buffer with a cell of count 0 between two cells of pulses
STOP_BUFFER == <<0, 63, 6, 4, 249, 23, 0, 23, 255, 66>>

\* bytearrays handed to the decoder: every one of at most 3 bytes 0, 1, 255, and
\* a header followed by cells and a possible odd last byte
BUFFERS ==
    SeqsUpTo({0, 1, 255}, 3)
    \cup {h \o Flatten(cells) \o tail :
            h \in HEADER_SAMPLES, cells \in SeqsUpTo(CELL_SAMPLES, MaxCells),
            tail \in {<<>>, <<7>>}}

\* the most bytes of a parameter value that is not a header with a cell
MaxParamBytes == 3

\* values of the STARTUP_TUNE parameter: every one of at most MaxParamBytes
\* bytes 0, 1, 255, and a header followed by one cell
PARAM_VALUES ==
    SeqsUpTo({0, 1, 255}, MaxParamBytes)
    \cup {h \o c : h \in HEADER_SAMPLES, c \in CELL_SAMPLES}

(***************************************************************************)
(* State                                                                   *)
(***************************************************************************)
VARIABLES
    job,                    \* "encode": to_am32_startup_melody, then the way back;
                            \* "decode": from_am32_startup_melody on a given buffer;
                            \* "param": get_melody_string_from_dronecan_param_value
    pc,                     \* the position in the code
    raised,                 \* the exception that ended the call at pc, or "none"
    rtttl,                  \* argument of to_am32_startup_melody
    value,                  \* argument of get_melody_string_from_dronecan_param_value
    startup_melody_length,  \* argument of to_am32_startup_melody
    parsed_data,            \* locals of to_am32_startup_melody ...
    result,
    error_codes,
    current_result_index,
    current_melody_index,
    temp3,
    pulses_needed,
    duration,
    am32_melody,            \* what to_am32_startup_melody returned
    startup_melody_data,    \* argument of from_am32_startup_melody
    melody_string,          \* what from_am32_startup_melody returned
    reparsed,               \* parse(melody_string)
    calls                   \* the calls in progress of concurrent callers, each with
                            \* its arguments, its position and its local variables

vars == <<job, pc, raised, rtttl, value, startup_melody_length, parsed_data, result, error_codes,
          current_result_index, current_melody_index, temp3, pulses_needed, duration,
          am32_melody, startup_melody_data, melody_string, reparsed, calls>>

NoParse == ParseFailure("unset")

NoReturn == [data |-> <<>>, errorCodes |-> <<>>, errorCodesNone |-> TRUE]

Init ==
    /\ \/ /\ job = "encode"
          /\ pc = "to_am32"
          /\ rtttl \in TEXTS
          /\ startup_melody_length \in LENGTHS
          /\ startup_melody_data = <<>>
          /\ value = <<>>
       \/ /\ job = "encode"
          /\ pc = "to_am32"
          /\ rtttl \in PITCH_TEXTS
          /\ startup_melody_length = PITCH_LENGTH
          /\ startup_melody_data = <<>>
          /\ value = <<>>
       \/ /\ job = "encode"
          /\ pc = "to_am32"
          /\ rtttl = SAME_PITCH_TEXT
          /\ startup_melody_length = SAME_PITCH_LENGTH
          /\ startup_melody_data = <<>>
          /\ value = <<>>
       \/ /\ job = "encode"
          /\ pc = "to_am32"
          /\ rtttl = BLUEJAY
          /\ startup_melody_length = BLUEJAY_LENGTH
          /\ startup_melody_data = <<>>
          /\ value = <<>>
       \/ /\ job = "decode"
          /\ pc = "from_am32"
          /\ rtttl = <<>>
          /\ startup_melody_length = 0
          /\ startup_melody_data \in BUFFERS \cup CODE_BUFFERS \cup {STOP_BUFFER}
          /\ value = <<>>
       \/ /\ job = "param"
          /\ pc = "get_melody_string"
          /\ rtttl = <<>>
          /\ startup_melody_length = 0
          /\ startup_melody_data = <<>>
          /\ value \in PARAM_VALUES
    /\ raised = "none"
    /\ parsed_data = NoParse
    /\ result = <<>>
    /\ error_codes = <<>>
    /\ current_result_index = 0
    /\ current_melody_index = 0
    /\ temp3 = 0
    /\ pulses_needed = 0
    /\ duration = 0
    /\ am32_melody = NoReturn
    /\ melody_string = <<>>
    /\ reparsed = NoParse
    /\ calls = <<>>

(***************************************************************************)
(* to_am32_startup_melody                                                  *)
(***************************************************************************)
DEFAULT_LENGTH == 128

MAX_ITEM_VALUE == 256

melody == parsed_data.melody

EncoderLocals == <<parsed_data, result, error_codes, current_result_index,
                   current_melody_index, temp3, pulses_needed, duration>>

DecoderVars == <<startup_melody_data, melody_string, reparsed>>

Inputs == <<job, rtttl, value, startup_melody_length, calls>>

\* header with the two bytes of bpm in little-endian order
header_little_endian(defaults) ==
    LET bpm == int(defaults.bpm) % 65536
    IN  <<bpm % 256, (bpm \div 256) % 256, int(defaults.octave) % MAX_ITEM_VALUE,
          int(defaults.duration) % MAX_ITEM_VALUE>>

\* lines 48-52
header(defaults) ==
    LET bpm == int(defaults.bpm) % 65536
    IN  <<(bpm \div 256) % 256, bpm % 256, int(defaults.octave) % MAX_ITEM_VALUE,
          int(defaults.duration) % MAX_ITEM_VALUE>>

\* initial_result on a buffer whose bytes start as 255 (an erased EEPROM image)
initial_result_erased(defaults, length) ==
    [i \in 1..length |-> IF i <= 4 THEN header(defaults)[i] ELSE 255]

\* result after lines 45-52
initial_result(defaults, length) ==
    [i \in 1..length |-> IF i <= 4 THEN header(defaults)[i] ELSE 0]

\* pulses_needed = round(item['duration'] / (1000 / item['frequency'])), the
\* frequency in tenths of a hertz
pulses(item) ==
    LET g == gcd(item.duration.num, 10000)
    IN  round((item.duration.num \div g) * item.frequency, item.duration.den * (10000 \div g))

\* lines 33-37: the empty text
ReturnEmpty ==
    /\ pc = "to_am32" /\ job = "encode"
    /\ rtttl = <<>>
    /\ am32_melody' = [data |-> bytearray(DEFAULT_LENGTH), errorCodes |-> <<>>,
                       errorCodesNone |-> TRUE]
    /\ startup_melody_data' = bytearray(DEFAULT_LENGTH)
    /\ pc' = "from_am32"
    /\ UNCHANGED <<Inputs, raised, EncoderLocals, melody_string, reparsed>>

\* the size test with startup_melody_length < 3
below_minimum_length_3(length) == length < 3

\* line 40
below_minimum_length(length) == length < 4

\* lines 40-55, p being what parse returned or raised
BeginWith(p) ==
    IF p.raised # "none"
    THEN /\ raised' = p.raised
         /\ pc' = "to_am32_raised"
         /\ UNCHANGED EncoderLocals
    ELSE IF below_minimum_length(startup_melody_length)
    THEN /\ raised' = "ValueError_too_small"
         /\ pc' = "to_am32_raised"
         /\ parsed_data' = p
         /\ UNCHANGED <<result, error_codes, current_result_index, current_melody_index,
                        temp3, pulses_needed, duration>>
    ELSE /\ parsed_data' = p
         /\ result' = initial_result(p.defaults, startup_melody_length)
         /\ error_codes' = [i \in 1..Len(p.melody) |-> 0]
         /\ current_result_index' = 4
         /\ current_melody_index' = 0
         /\ pc' = "outer"
         /\ UNCHANGED <<raised, temp3, pulses_needed, duration>>

\* lines 38-55: parse, the size check, the header
Begin ==
    /\ pc = "to_am32" /\ job = "encode"
    /\ rtttl # <<>>
    /\ BeginWith(parse(rtttl))
    /\ UNCHANGED <<Inputs, am32_melody, DecoderVars>>

\* the condition of line 57 without the test for room in the buffer
OuterCondition_any_room == current_melody_index < Len(melody)

OuterCondition ==
    current_melody_index < Len(melody) /\ current_result_index < Len(result)

item == melody[current_melody_index + 1]

\* lines 57-65: a pitched note whose code fits a byte
StartPitched ==
    /\ pc = "outer" /\ OuterCondition
    /\ item.frequency # 0
    /\ LET t == _calculate_am32_temp3_from_frequency(item.frequency) IN
       /\ 0 < t /\ t < MAX_ITEM_VALUE
       /\ temp3' = t
       /\ pulses_needed' = pulses(item)
    /\ pc' = "pulse_loop"
    /\ UNCHANGED <<Inputs, raised, parsed_data, result, error_codes, current_result_index,
                   current_melody_index, duration, am32_melody, DecoderVars>>

\* OutOfRange leaving an empty cell for the note it could not write
OutOfRange_skips_cell ==
    /\ pc = "outer" /\ OuterCondition
    /\ item.frequency # 0
    /\ LET t == _calculate_am32_temp3_from_frequency(item.frequency) IN
       /\ ~(0 < t /\ t < MAX_ITEM_VALUE)
       /\ temp3' = t
    /\ error_codes' = [error_codes EXCEPT ![current_melody_index + 1] = 1]
    /\ current_melody_index' = current_melody_index + 1
    /\ current_result_index' = current_result_index + 2
    /\ UNCHANGED <<Inputs, pc, raised, parsed_data, result,
                   pulses_needed, duration, am32_melody, DecoderVars>>

\* lines 57-63, 78, 93: a pitched note whose code does not fit
OutOfRange ==
    /\ pc = "outer" /\ OuterCondition
    /\ item.frequency # 0
    /\ LET t == _calculate_am32_temp3_from_frequency(item.frequency) IN
       /\ ~(0 < t /\ t < MAX_ITEM_VALUE)
       /\ temp3' = t
    /\ error_codes' = [error_codes EXCEPT ![current_melody_index + 1] = 1]
    /\ current_melody_index' = current_melody_index + 1
    /\ UNCHANGED <<Inputs, pc, raised, parsed_data, result, current_result_index,
                   pulses_needed, duration, am32_melody, DecoderVars>>

\* EmitPulseCell without the subtraction of line 71
EmitPulseCell_no_decrease ==
    /\ pc = "pulse_loop"
    /\ pulses_needed > 0 /\ current_result_index < Len(result)
    /\ IF current_result_index + 1 >= Len(result)
       THEN /\ raised' = "IndexError"
            /\ pc' = "to_am32_raised"
            /\ result' = SetAt(result, current_result_index,
                               min(pulses_needed, MAX_ITEM_VALUE - 1))
            /\ UNCHANGED <<current_result_index, pulses_needed>>
       ELSE /\ result' = SetAt(SetAt(result, current_result_index,
                                     min(pulses_needed, MAX_ITEM_VALUE - 1)),
                               current_result_index + 1, temp3)
            /\ current_result_index' = current_result_index + 2
            /\ UNCHANGED <<pc, raised, pulses_needed>>
    /\ UNCHANGED <<Inputs, parsed_data, error_codes, current_melody_index, temp3, duration,
                   am32_melody, DecoderVars>>

\* lines 67-71: one pass of the loop that writes the cells of a pitched note
EmitPulseCell ==
    /\ pc = "pulse_loop"
    /\ pulses_needed > 0 /\ current_result_index < Len(result)
    /\ IF current_result_index + 1 >= Len(result)
       THEN \* result[current_result_index + 1] = temp3 is out of range
            /\ raised' = "IndexError"
            /\ pc' = "to_am32_raised"
            /\ result' = SetAt(result, current_result_index,
                               min(pulses_needed, MAX_ITEM_VALUE - 1))
            /\ UNCHANGED <<current_result_index, pulses_needed>>
       ELSE /\ result' = SetAt(SetAt(result, current_result_index,
                                     min(pulses_needed, MAX_ITEM_VALUE - 1)),
                               current_result_index + 1, temp3)
            /\ current_result_index' = current_result_index + 2
            /\ pulses_needed' = pulses_needed - min(pulses_needed, MAX_ITEM_VALUE - 1)
            /\ UNCHANGED <<pc, raised>>
    /\ UNCHANGED <<Inputs, parsed_data, error_codes, current_melody_index, temp3, duration,
                   am32_melody, DecoderVars>>

\* lines 73-76, 93
EndPitched ==
    /\ pc = "pulse_loop"
    /\ ~(pulses_needed > 0 /\ current_result_index < Len(result))
    /\ error_codes' = [error_codes EXCEPT
                          ![current_melody_index + 1] = IF pulses_needed > 0 THEN 2 ELSE 0]
    /\ current_melody_index' = current_melody_index + 1
    /\ pc' = "outer"
    /\ UNCHANGED <<Inputs, raised, parsed_data, result, current_result_index, temp3,
                   pulses_needed, duration, am32_melody, DecoderVars>>

\* lines 57-60, 79-80: a rest
StartRest ==
    /\ pc = "outer" /\ OuterCondition
    /\ item.frequency = 0
    /\ duration' = round(item.duration.num, item.duration.den)
    /\ pc' = "rest_loop"
    /\ UNCHANGED <<Inputs, raised, parsed_data, result, error_codes, current_result_index,
                   current_melody_index, temp3, pulses_needed, am32_melody, DecoderVars>>

\* lines 82-86: one pass of the loop that writes the cells of a rest
EmitRestCell ==
    /\ pc = "rest_loop"
    /\ duration > 0 /\ current_result_index < Len(result)
    /\ IF current_result_index + 1 >= Len(result)
       THEN \* result[current_result_index + 1] = 0 is out of range
            /\ raised' = "IndexError"
            /\ pc' = "to_am32_raised"
            /\ result' = SetAt(result, current_result_index,
                               min(duration, MAX_ITEM_VALUE - 1))
            /\ UNCHANGED <<current_result_index, duration>>
       ELSE /\ result' = SetAt(SetAt(result, current_result_index,
                                     min(duration, MAX_ITEM_VALUE - 1)),
                               current_result_index + 1, 0)
            /\ current_result_index' = current_result_index + 2
            /\ duration' = duration - min(duration, MAX_ITEM_VALUE - 1)
            /\ UNCHANGED <<pc, raised>>
    /\ UNCHANGED <<Inputs, parsed_data, error_codes, current_melody_index, temp3,
                   pulses_needed, am32_melody, DecoderVars>>

\* lines 88-91, 93
EndRest ==
    /\ pc = "rest_loop"
    /\ ~(duration > 0 /\ current_result_index < Len(result))
    /\ error_codes' = [error_codes EXCEPT
                          ![current_melody_index + 1] = IF duration > 0 THEN 2 ELSE 0]
    /\ current_melody_index' = current_melody_index + 1
    /\ pc' = "outer"
    /\ UNCHANGED <<Inputs, raised, parsed_data, result, current_result_index, temp3,
                   pulses_needed, duration, am32_melody, DecoderVars>>

\* line 57 fails: on to the loop of line 95
LeaveOuter ==
    /\ pc = "outer" /\ ~OuterCondition
    /\ pc' = "mark"
    /\ UNCHANGED <<Inputs, raised, EncoderLocals, am32_melody, DecoderVars>>

\* MarkRemaining without the assignment of line 96
MarkRemaining_unmarked ==
    /\ pc = "mark"
    /\ current_melody_index < Len(melody)
    /\ current_melody_index' = current_melody_index + 1
    /\ UNCHANGED <<Inputs, pc, raised, parsed_data, result, error_codes,
                   current_result_index, temp3, pulses_needed, duration, am32_melody,
                   DecoderVars>>

\* lines 95-97: one pass
MarkRemaining ==
    /\ pc = "mark"
    /\ current_melody_index < Len(melody)
    /\ error_codes' = [error_codes EXCEPT ![current_melody_index + 1] = 2]
    /\ current_melody_index' = current_melody_index + 1
    /\ UNCHANGED <<Inputs, pc, raised, parsed_data, result, current_result_index, temp3,
                   pulses_needed, duration, am32_melody, DecoderVars>>

\* lines 99-102, and the caller handing the data on (lines 316-319)
Return ==
    /\ pc = "mark"
    /\ ~(current_melody_index < Len(melody))
    /\ am32_melody' = [data |-> result, errorCodes |-> error_codes, errorCodesNone |-> FALSE]
    /\ startup_melody_data' = result
    /\ pc' = "from_am32"
    /\ UNCHANGED <<Inputs, raised, EncoderLocals, melody_string, reparsed>>

(***************************************************************************)
(* The way back: from_am32_startup_melody, and parse on what it returned   *)
(***************************************************************************)
\* the rounding errors the logical notes of data can have, one sign per note
NoiseVectors(data) ==
    LET notes == melody_notes_of(data)
        bpm == header_defaults(data).bpm
    IN  IF notes = <<>> \/ bpm = 0 THEN {<<>>}
        ELSE {v \in [1..Len(notes) -> {-1, 0, 1}] :
                \A k \in 1..Len(notes) :
                    v[k] \in NoiseChoices(quantized_steps(notes[k].duration, bpm))}

\* r is what from_am32_startup_melody returned or raised
DecodeWith(r) ==
    /\ raised' = r.raised
    /\ melody_string' = r.string
    /\ pc' = IF r.raised = "none" THEN "parse" ELSE "from_am32_raised"

Decode ==
    /\ pc = "from_am32"
    /\ \E noise \in NoiseVectors(startup_melody_data) :
         DecodeWith(from_am32_startup_melody(startup_melody_data, MELODY_NAME, noise))
    /\ UNCHANGED <<Inputs, EncoderLocals, am32_melody, startup_melody_data, reparsed>>

ReparseWith(p) ==
    /\ reparsed' = p
    /\ raised' = p.raised
    /\ pc' = IF p.raised = "none" THEN "done" ELSE "parse_raised"

Reparse ==
    /\ pc = "parse"
    /\ ReparseWith(parse(melody_string))
    /\ UNCHANGED <<Inputs, EncoderLocals, am32_melody, startup_melody_data, melody_string>>

(***************************************************************************)
(* get_melody_string_from_dronecan_param_value                             *)
(***************************************************************************)
PARAM_LENGTH == 128

Melody == <<"M", "e", "l", "o", "d", "y">>

\* melody_array with the bytes of the value as they are, not padded
melody_array_unpadded(bytes) == bytes

\* lines 172-174: melody_array for a value of at most 128 bytes
melody_array(bytes) == [i \in 1..PARAM_LENGTH |-> IF i <= Len(bytes) THEN bytes[i] ELSE 0]

\* lines 170-171: a value whose bytes are all 255 (the empty value is one)
GetMelodyStringNone ==
    /\ pc = "get_melody_string"
    /\ \A k \in 1..Len(value) : value[k] = 255
    /\ melody_string' = <<>>
    /\ pc' = "param_returned"
    /\ UNCHANGED <<Inputs, raised, EncoderLocals, am32_melody, startup_melody_data, reparsed>>

\* lines 175-176, r being what from_am32_startup_melody returned or raised
GetMelodyStringWith(r) ==
    /\ raised' = r.raised
    /\ melody_string' = r.string
    /\ pc' = IF r.raised = "none" THEN "param_returned" ELSE "param_raised"

\* lines 172-176 on the array a
GetMelodyStringOn(a) ==
    /\ startup_melody_data' = a
    /\ \E noise \in NoiseVectors(a) :
         GetMelodyStringWith(from_am32_startup_melody(a, Melody, noise))

\* lines 172-176: any other value; melody_array[i] = value[i] is out of range
\* for a value of more than 128 bytes
GetMelodyString ==
    /\ pc = "get_melody_string"
    /\ ~(\A k \in 1..Len(value) : value[k] = 255)
    /\ IF Len(value) > PARAM_LENGTH
       THEN /\ raised' = "IndexError"
            /\ pc' = "param_raised"
            /\ UNCHANGED <<startup_melody_data, melody_string>>
       ELSE GetMelodyStringOn(melody_array(value))
    /\ UNCHANGED <<Inputs, EncoderLocals, am32_melody, reparsed>>

Next ==
    \/ ReturnEmpty
    \/ Begin
    \/ StartPitched
    \/ OutOfRange
    \/ EmitPulseCell
    \/ EndPitched
    \/ StartRest
    \/ EmitRestCell
    \/ EndRest
    \/ LeaveOuter
    \/ MarkRemaining
    \/ Return
    \/ Decode
    \/ Reparse
    \/ GetMelodyStringNone
    \/ GetMelodyString

Spec == Init /\ [][Next]_vars

(***************************************************************************)
(* Properties                                                              *)
(***************************************************************************)
\* to_am32_startup_melody has returned
EncodeReturned ==
    job = "encode" /\ pc \in {"from_am32", "from_am32_raised", "parse", "parse_raised", "done"}

\* from_am32_startup_melody has returned or raised
DecodeEnded == pc \in {"from_am32_raised", "parse", "parse_raised", "done"}

\* the number of ':' in a text
ColonCount(text) == Cardinality({k \in 1..Len(text) : text[k] = ":"})

AllZero(data) == \A k \in 1..Len(data) : data[k] = 0

\* what the encoder has to write for a note: the number of pulses of a pitched
\* note, the milliseconds of a rest
Units(note) ==
    IF note.frequency # 0 THEN pulses(note) ELSE round(note.duration.num, note.duration.den)

PitchByte(note) ==
    IF note.frequency # 0 THEN _calculate_am32_temp3_from_frequency(note.frequency) ELSE 0

Encodable(note) ==
    note.frequency = 0 \/ (0 < PitchByte(note) /\ PitchByte(note) < MAX_ITEM_VALUE)

\* the cells the whole of a note takes
CellCount(note) == IF Encodable(note) THEN (Units(note) + 254) \div 255 ELSE 0

RECURSIVE StartIndex(_, _)
\* the write index at which note i of notes is reached when nothing is cut short
StartIndex(notes, i) ==
    IF i = 1 THEN 4 ELSE StartIndex(notes, i - 1) + 2 * CellCount(notes[i - 1])

\* C1: for every text that parse accepts and every startup_melody_length of at
\* least 4, even or odd, to_am32_startup_melody returns normally and the data it
\* returns has exactly startup_melody_length bytes.
C1_ReturnsRequestedLength ==
    (job = "encode" /\ parsed_data.raised = "none" /\ startup_melody_length >= 4)
        => /\ pc # "to_am32_raised"
           /\ EncodeReturned => Len(am32_melody.data) = startup_melody_length

\* the length of a note in eighths of a 1/64 step of a full note
Steps8(note, bpm) ==
    LET g == gcd(note.duration.num, note.duration.den)
        n == note.duration.num \div g
        d == note.duration.den \div g
        h == gcd(n, 3750)
    IN  ((n \div h) * bpm * 8) \div (d * (3750 \div h))

RECURSIVE SumSteps8(_, _)
SumSteps8(notes, bpm) ==
    IF notes = <<>> THEN 0 ELSE Steps8(Head(notes), bpm) + SumSteps8(Tail(notes), bpm)

SamePitch(a, b) == a.note = b.note /\ a.frequency = b.frequency

RECURSIVE SameMelody(_, _, _)
\* dst is src note for note, a note of src standing as one or more consecutive
\* notes of its pitch whose lengths add up to its length within one 1/64 step
SameMelody(src, dst, bpm) ==
    IF src = <<>> THEN dst = <<>>
    ELSE \E k \in 1..Len(dst) :
            /\ \A j \in 1..k : SamePitch(dst[j], src[1])
            /\ abs(SumSteps8(SubSeq(dst, 1, k), bpm) - Steps8(src[1], bpm)) <= 8
            /\ SameMelody(Tail(src), SubSeq(dst, k + 1, Len(dst)), bpm)

\* C2: when encoding a text gave error code 0 for every note, decoding the
\* returned buffer and parsing the decoded text gives the same notes in the same
\* order (pitch class, octave, length within one 1/64 step), a note possibly
\* standing as several consecutive tokens of its pitch.
C2_RoundTrip ==
    (EncodeReturned /\ ~am32_melody.errorCodesNone
        /\ \A i \in 1..Len(am32_melody.errorCodes) : am32_melody.errorCodes[i] = 0)
        => /\ pc # "from_am32_raised"
           /\ pc # "parse_raised"
           /\ pc = "done" => SameMelody(melody, reparsed.melody, int(parsed_data.defaults.bpm))

\* C3: a note that is reached when the write index is at the end of the buffer
\* gets error code 2, and no byte of the buffer changes once the index is
\* there; with a buffer of 4 bytes every note gets code 2 and the data is the
\* header alone.
C3_ExhaustedReturn ==
    (EncodeReturned /\ ~am32_melody.errorCodesNone)
        => /\ \A i \in 1..Len(melody) :
                StartIndex(melody, i) >= startup_melody_length
                    => am32_melody.errorCodes[i] = 2
           /\ startup_melody_length = 4
                => /\ \A i \in 1..Len(melody) : am32_melody.errorCodes[i] = 2
                   /\ am32_melody.data = <<int(parsed_data.defaults.bpm) \div 256,
                                           int(parsed_data.defaults.bpm) % 256,
                                           int(parsed_data.defaults.octave),
                                           int(parsed_data.defaults.duration)>>

C3_NoWriteStep ==
    (job = "encode" /\ pc \in {"outer", "pulse_loop", "rest_loop", "mark"}
        /\ current_result_index >= Len(result))
        => result' = result

C3_BufferExhaustion == []C3_ExhaustedReturn /\ [][C3_NoWriteStep]_vars

\* a call returned in which the buffer of more than 4 bytes was full when a
\* note was reached
C3_Witness ==
    /\ EncodeReturned /\ ~am32_melody.errorCodesNone
    /\ startup_melody_length > 4
    /\ \E i \in 1..Len(melody) :
          /\ StartIndex(melody, i) >= startup_melody_length
          /\ am32_melody.errorCodes[i] = 2

\* C4: to_am32_startup_melody('', N) returns N bytes, all 0, and no error codes.
C4_EmptyTextRequestedLength ==
    (job = "encode" /\ rtttl = <<>> /\ pc # "to_am32")
        => /\ am32_melody.data = bytearray(startup_melody_length)
           /\ am32_melody.errorCodesNone

\* C5 as stated: for every startup_melody_length below 4 and every text,
\* to_am32_startup_melody fails with the size error.
C5_SizeErrorForEveryText ==
    (job = "encode" /\ startup_melody_length < 4 /\ pc # "to_am32")
        => pc = "to_am32_raised" /\ raised = "ValueError_too_small"

\* C5: for every startup_melody_length below 4 and every text but the empty
\* one, to_am32_startup_melody fails and returns no data and no error codes; it
\* fails with the size error exactly when parse accepts the text, and with the
\* error of parse otherwise.
C5_SizeError ==
    (job = "encode" /\ startup_melody_length < 4 /\ rtttl # <<>> /\ pc # "to_am32")
        => /\ pc = "to_am32_raised"
           /\ am32_melody = NoReturn
           /\ raised = "ValueError_too_small" <=> parse(rtttl).raised = "none"

\* a text with a note that parse accepts and a length of 3 ended in the size error
C5_Witness ==
    /\ job = "encode" /\ startup_melody_length = 3
    /\ parsed_data.raised = "none" /\ parsed_data.melody # <<>>
    /\ pc = "to_am32_raised" /\ raised = "ValueError_too_small"

\* C6: parse fails with the format error exactly when the text does not split
\* on ':' into three sections, returning nothing; to_am32_startup_melody lets
\* that error out for every text but the empty one.
C6_FormatError ==
    /\ (job = "encode" /\ rtttl # <<>> /\ pc # "to_am32")
          => /\ (pc = "to_am32_raised" /\ raised = "ValueError_invalid_rtttl")
                    <=> ColonCount(rtttl) # 2
             /\ ColonCount(rtttl) # 2 => (parsed_data = NoParse /\ am32_melody = NoReturn)
    /\ pc \in {"parse_raised", "done"}
          => /\ (pc = "parse_raised" /\ raised = "ValueError_invalid_rtttl")
                    <=> ColonCount(melody_string) # 2
             /\ ColonCount(melody_string) # 2 => reparsed.melody = <<>>

\* a text of four sections ended to_am32_startup_melody in the format error
C6_Witness ==
    /\ job = "encode" /\ ColonCount(rtttl) = 3
    /\ pc = "to_am32_raised" /\ raised = "ValueError_invalid_rtttl"

\* C7: the format error is the only failure of parse: for a text of three
\* sections parse returns a melody, a malformed default or note token being
\* dropped.
C7_ParseOnlyFormatError ==
    (job = "encode" /\ rtttl # <<>> /\ pc # "to_am32" /\ ColonCount(rtttl) = 2)
        => parsed_data.raised = "none"

\* C8: from_am32_startup_melody returns '' for a buffer of any length whose
\* bytes are all 0.
C8_AllZeroEmptyString ==
    (DecodeEnded /\ AllZero(startup_melody_data))
        => pc # "from_am32_raised" /\ melody_string = <<>>

\* an all-zero buffer of at least 4 bytes was decoded
C8_Witness ==
    /\ DecodeEnded /\ AllZero(startup_melody_data) /\ Len(startup_melody_data) >= 4
    /\ melody_string = <<>>

\* the placeholder text for the name 'm'
C9_Placeholder ==
    <<"m", ":", "d", "=", "1", ",", "o", "=", "4", ",", "b", "p", "m", "=", "1", "0", "0", ":">>

\* C9 as stated: from_am32_startup_melody returns the placeholder for every
\* buffer of fewer than 4 bytes, whatever the bytes.
C9_PlaceholderForEveryShortBuffer ==
    (DecodeEnded /\ Len(startup_melody_data) < 4)
        => pc # "from_am32_raised" /\ melody_string = C9_Placeholder

\* C9: from_am32_startup_melody returns the placeholder for every buffer of 1,
\* 2 or 3 bytes that has a byte other than 0, and '' for every buffer of fewer
\* than 4 bytes that are all 0.
C9_ShortBuffer ==
    (DecodeEnded /\ Len(startup_melody_data) < 4)
        => /\ pc # "from_am32_raised"
           /\ melody_string = IF AllZero(startup_melody_data) THEN <<>> ELSE C9_Placeholder

\* a buffer of 3 bytes, one of them not 0, was decoded to the placeholder
C9_Witness ==
    /\ DecodeEnded /\ Len(startup_melody_data) = 3 /\ ~AllZero(startup_melody_data)
    /\ melody_string = C9_Placeholder

RECURSIVE SumCounts(_, _, _)
\* the sum of the count bytes of c cells from index pos on
SumCounts(data, pos, c) ==
    IF c = 0 THEN 0 ELSE At(data, pos) + SumCounts(data, pos + 2, c - 1)

RECURSIVE WrittenInFull(_, _, _, _, _)
\* from note i and index pos on, the cells of every note of code 0 are in data
WrittenInFull(notes, codes, data, i, pos) ==
    IF i > Len(notes) THEN TRUE
    ELSE IF codes[i] = 0
    THEN /\ pos + 2 * CellCount(notes[i]) <= Len(data)
         /\ \A k \in 0..(CellCount(notes[i]) - 1) :
                At(data, pos + 2 * k + 1) = PitchByte(notes[i])
         /\ SumCounts(data, pos, CellCount(notes[i])) = Units(notes[i])
         /\ Encodable(notes[i])
         /\ WrittenInFull(notes, codes, data, i + 1, pos + 2 * CellCount(notes[i]))
    ELSE IF codes[i] = 1 THEN WrittenInFull(notes, codes, data, i + 1, pos)
    ELSE WrittenInFull(notes, codes, data, i + 1, Len(data))

\* C10: for every text but the empty one that parse accepts and every
\* startup_melody_length of at least 4, to_am32_startup_melody returns error
\* codes, one per parsed note, each 0, 1 or 2, and a note has code 0 only if its
\* whole pulse count, or rest duration, is in the buffer.
C10_ErrorCodes ==
    (job = "encode" /\ parsed_data.raised = "none" /\ startup_melody_length >= 4
        /\ pc \notin {"to_am32", "outer", "pulse_loop", "rest_loop", "mark"})
        => /\ EncodeReturned /\ ~am32_melody.errorCodesNone
           /\ Len(am32_melody.errorCodes) = Len(melody)
           /\ \A i \in 1..Len(melody) : am32_melody.errorCodes[i] \in {0, 1, 2}
           /\ WrittenInFull(melody, am32_melody.errorCodes, am32_melody.data, 1, 4)

\* what C10 says of the error codes holds of every call that returns them
C10_ErrorCodesWhenReturned ==
    (EncodeReturned /\ ~am32_melody.errorCodesNone)
        => /\ Len(am32_melody.errorCodes) = Len(melody)
           /\ \A i \in 1..Len(melody) : am32_melody.errorCodes[i] \in {0, 1, 2}
           /\ WrittenInFull(melody, am32_melody.errorCodes, am32_melody.data, 1, 4)

\* C11: in the data to_am32_startup_melody returns, every byte at or after the
\* final write index is 0, and the bytes from index 4 up to it are the cells
\* written, each with a count of 1 to 255.
C11_TrailingZeros ==
    (EncodeReturned /\ ~am32_melody.errorCodesNone)
        => /\ current_result_index >= 4
           /\ current_result_index % 2 = 0
           /\ \A k \in 0..(Len(am32_melody.data) - 1) :
                /\ k >= current_result_index => At(am32_melody.data, k) = 0
                /\ (k >= 4 /\ k < current_result_index /\ k % 2 = 0)
                      => At(am32_melody.data, k) \in 1..255

\* a call returned a buffer with a cell and bytes left after the last cell
C11_Witness ==
    /\ EncodeReturned /\ ~am32_melody.errorCodesNone
    /\ current_result_index > 4
    /\ current_result_index + 2 <= Len(am32_melody.data)

\* the header bytes the defaults stand for
C12_HeaderBytes(defaults) ==
    <<int(defaults.bpm) \div 256, int(defaults.bpm) % 256, int(defaults.octave),
      int(defaults.duration)>>

\* the header text the defaults stand for, after the name 'm'
C12_HeaderText(defaults) ==
    <<"m", ":", "b", "=">> \o defaults.bpm \o <<",", "o", "=">> \o defaults.octave
        \o <<",", "d", "=">> \o defaults.duration \o <<":">>

\* C12: the data to_am32_startup_melody returns starts with bpm div 256,
\* bpm mod 256, octave, duration of the defaults section, and
\* from_am32_startup_melody of that data returns a text that starts with
\* 'b=<bpm>,o=<octave>,d=<duration>' of the same three values.
C12_HeaderRoundTrip ==
    (EncodeReturned /\ ~am32_melody.errorCodesNone)
        => /\ SubSeq(am32_melody.data, 1, 4) = C12_HeaderBytes(parsed_data.defaults)
           /\ DecodeEnded
                => /\ pc # "from_am32_raised"
                   /\ IsPrefix(C12_HeaderText(parsed_data.defaults), melody_string)

\* what C12 says holds of every buffer the decoder returns a text for
C12_HeaderWhenDecoded ==
    (EncodeReturned /\ ~am32_melody.errorCodesNone)
        => /\ SubSeq(am32_melody.data, 1, 4) = C12_HeaderBytes(parsed_data.defaults)
           /\ pc \in {"parse", "parse_raised", "done"}
                => IsPrefix(C12_HeaderText(parsed_data.defaults), melody_string)

RECURSIVE LastAllowed(_, _, _, _)
\* the value of the last token key=v of tokens whose v is in allowed, else initial
LastAllowed(tokens, key, allowed, initial) ==
    IF tokens = <<>> THEN initial
    ELSE LET t == tokens[Len(tokens)]
             earlier == SubSeq(tokens, 1, Len(tokens) - 1)
         IN  IF /\ Len(t) >= 2 /\ t[1] = key /\ t[2] = "="
                /\ SubSeq(t, 3, Len(t)) \in allowed
             THEN SubSeq(t, 3, Len(t))
             ELSE LastAllowed(earlier, key, allowed, initial)

\* the defaults section of a text of three sections, as its tokens
C13_Tokens == split(split(rtttl, ":")[2], ",")

\* C13: after get_defaults has processed the tokens k=v of a defaults section,
\* duration is one of 1, 2, 4, 8, 16, 32, octave one of 4, 5, 6, 7 and bpm one of
\* the 33 allowed values; each is the value of the last token of its key with an
\* allowed value, and 4, 6, 63 when there is no such token.
C13_DefaultsInWhitelist ==
    (job = "encode" /\ parsed_data.raised = "none")
        => /\ parsed_data.defaults.duration
                \in {<<"1">>, <<"2">>, <<"4">>, <<"8">>, <<"1", "6">>, <<"3", "2">>}
           /\ parsed_data.defaults.octave \in {<<"4">>, <<"5">>, <<"6">>, <<"7">>}
           /\ int(parsed_data.defaults.bpm) \in
                {25, 28, 31, 35, 40, 45, 50, 56, 63, 70, 80, 90, 100, 112, 125, 140, 160,
                 180, 200, 225, 250, 285, 320, 355, 400, 450, 500, 565, 570, 635, 715,
                 800, 900}
           /\ str(int(parsed_data.defaults.bpm)) = parsed_data.defaults.bpm
           /\ parsed_data.defaults.duration
                = LastAllowed(C13_Tokens, "d",
                              {<<"1">>, <<"2">>, <<"4">>, <<"8">>, <<"1", "6">>, <<"3", "2">>},
                              <<"4">>)
           /\ parsed_data.defaults.octave
                = LastAllowed(C13_Tokens, "o", {<<"4">>, <<"5">>, <<"6">>, <<"7">>}, <<"6">>)
           /\ parsed_data.defaults.bpm
                = LastAllowed(C13_Tokens, "b", ALLOWED_BPM, <<"6", "3">>)

\* get_defaults kept duration 8 over a later d=3, and 6 and 63 for the keys that
\* got no allowed value
C13_Witness ==
    /\ job = "encode" /\ parsed_data.raised = "none"
    /\ C13_Tokens = << <<"d", "=", "8">>, <<"o", "=", "9">>, <<"q", "=", "1">>,
                       <<"d", "=", "3">> >>
    /\ parsed_data.defaults.duration = <<"8">>
    /\ parsed_data.defaults.octave = <<"6">>
    /\ parsed_data.defaults.bpm = <<"6", "3">>

\* C14: get_melody_string_from_dronecan_param_value returns '' for a value
\* whose bytes are all 255, without handing the decoder anything; for any other
\* value it returns what from_am32_startup_melody gives for the value followed by
\* zeros up to 128 bytes, with the name 'Melody'.
C14_ParamValue ==
    (job = "param" /\ pc # "get_melody_string")
        => IF \A k \in 1..Len(value) : value[k] = 255
           THEN pc = "param_returned" /\ melody_string = <<>> /\ startup_melody_data = <<>>
           ELSE /\ startup_melody_data = value \o bytearray(128 - Len(value))
                /\ \E noise \in NoiseVectors(startup_melody_data) :
                      from_am32_startup_melody(startup_melody_data,
                                               <<"M", "e", "l", "o", "d", "y">>, noise)
                         = [raised |-> raised, string |-> melody_string]

\* a value of fewer than 4 bytes, not all 255 and not all 0, was decoded as 128
\* bytes
C14_Witness ==
    /\ job = "param" /\ pc = "param_returned"
    /\ Len(value) < 4
    /\ Len(startup_melody_data) = 128
    /\ melody_string # <<>>

\* the header and the 11 cells the self-test text encodes to
C15_Cells ==
    <<2, 58, 4, 32, 52, 66, 13, 0, 69, 45, 13, 0, 52, 66, 13, 0, 78, 39, 211, 0, 69, 45,
      208, 25, 52, 25>>

\* C15: encoding the bluejay text with length 128 returns 128 bytes that start
\* 2, 58, 4, 32, hold one cell per note (11 cells) and then zeros, with error
\* code 0 for all 11 notes; decoding that data and parsing the text gives 11 notes
\* of the same pitch class and octave in the same order, each as long as the
\* original within one 1/64 step.
C15_Bluejay ==
    (job = "encode" /\ rtttl = BLUEJAY)
        => /\ pc \notin {"to_am32_raised", "from_am32_raised", "parse_raised"}
           /\ EncodeReturned
                => /\ Len(am32_melody.data) = 128
                   /\ SubSeq(am32_melody.data, 1, 26) = C15_Cells
                   /\ \A k \in 27..128 : am32_melody.data[k] = 0
                   /\ am32_melody.errorCodes = [i \in 1..11 |-> 0]
                   /\ Len(melody) = 11
           /\ pc = "done"
                => /\ Len(reparsed.melody) = 11
                   /\ \A i \in 1..11 :
                        /\ SamePitch(reparsed.melody[i], melody[i])
                        /\ abs(Steps8(reparsed.melody[i], 570) - Steps8(melody[i], 570)) <= 8

\* the bluejay text went the whole way: encoded, decoded, parsed again
C15_Witness ==
    /\ job = "encode" /\ rtttl = BLUEJAY /\ pc = "done"
    /\ Len(reparsed.melody) = 11

\* C16: for every frequency f of a parsed note whose code
\* _calculate_am32_temp3_from_frequency(f) is in (0, 256), the frequency
\* _calculate_frequency_from_am32_temp3 gives back for the code differs from f by
\* less than 0.05 f (f in tenths of a hertz, the frequency given back in mHz).
C16_RelativeError ==
    (job = "encode" /\ pc = "pulse_loop")
        => /\ 0 < temp3 /\ temp3 < 256
           /\ 20 * abs(item.frequency * 100 - _calculate_frequency_from_am32_temp3(temp3))
                < item.frequency * 100

\* the encoder is writing a#6 (1864.7 Hz, code 6), the pitch whose code gives
\* back the frequency furthest from it (1825.8 Hz)
C16_Witness ==
    /\ job = "encode" /\ pc = "pulse_loop"
    /\ temp3 = 6
    /\ item.frequency = 18647
    /\ 50 * abs(item.frequency * 100 - _calculate_frequency_from_am32_temp3(temp3))
          > item.frequency * 100

\* the frequency of the pitch code of the only cell of a buffer of 6 bytes
C20_Frequency == _calculate_frequency_from_am32_temp3(At(startup_melody_data, 5))

\* C20: for every pitch code 1..255 read from a cell the decoder derives a
\* pitch class index in 0..11, also when the frequency lies below c4, and never
\* indexes outside the table of note names.
C20_PitchClassInRange ==
    (job = "decode" /\ DecodeEnded /\ Len(startup_melody_data) = 6
        /\ At(startup_melody_data, 5) \in 1..255 /\ At(startup_melody_data, 4) > 0)
        => /\ note_index(C20_Frequency) \in 0..11
           /\ raised # "IndexError"

\* what C20 says holds of the pitch codes whose frequency is not below c4: the
\* index is in 0..11 and the octave is 4 + floor(semitones / 12)
C20_AtOrAboveC4 ==
    (job = "decode" /\ DecodeEnded /\ Len(startup_melody_data) = 6
        /\ At(startup_melody_data, 5) \in 1..255 /\ At(startup_melody_data, 4) > 0
        /\ note_semitones(C20_Frequency) >= 0)
        => /\ note_index(C20_Frequency) \in 0..11
           /\ raised # "IndexError"
           /\ _calculate_note_octave_from_frequency(C20_Frequency)
                = 4 + (note_semitones(C20_Frequency) \div 12)

\* the cells from index start up to the write index are cells of note: the
\* pitch byte of the note, counts in 1..255, every count but the last 255
SplitCells(note, data, start, k) ==
    \A j \in 0..(k - 1) :
        /\ At(data, start + 2 * j + 1) = PitchByte(note)
        /\ At(data, start + 2 * j) \in 1..(MAX_ITEM_VALUE - 1)
        /\ (j < k - 1 => At(data, start + 2 * j) = MAX_ITEM_VALUE - 1)

\* what the outer loop left of note: k cells from index start on, and a code
\* that is 0 exactly when their counts sum to the units of the note, 2 exactly
\* when the buffer ended before
SplitOf(note, code, data, start, k) ==
    /\ SplitCells(note, data, start, k)
    /\ code \in {0, 2}
    /\ (code = 0 <=> SumCounts(data, start, k) = Units(note))
    /\ (code = 2 <=> (SumCounts(data, start, k) < Units(note)
                        /\ start + 2 * k >= Len(data)))

\* the outer loop has just ended its pass on a note it reached with room, a
\* rest or a note whose code fits a byte
SplitEnded ==
    /\ job = "encode" /\ pc = "outer" /\ current_melody_index > 0
    /\ Encodable(melody[current_melody_index])

\* what C18 says of the cells and the code holds of every note whose pass ended
C18_SplitWhenCoded ==
    SplitEnded
        => SplitOf(melody[current_melody_index], error_codes[current_melody_index], result,
                   StartIndex(melody, current_melody_index),
                   (current_result_index - StartIndex(melody, current_melody_index)) \div 2)

\* C18: a note reached while the buffer has room, a rest or a note whose code
\* is in (0,256), is written as consecutive cells (count, pitch byte) with
\* counts in 1..255, all but the last 255, and gets error code 0 exactly when
\* the counts sum to its pulses (its milliseconds for a rest), 2 exactly when
\* the buffer ended first: the pass on such a note always ends with a code.
C18_RunLengthSplit ==
    /\ C18_SplitWhenCoded
    /\ ~(job = "encode" /\ pc = "to_am32_raised" /\ raised = "IndexError"
            /\ current_result_index < Len(result)
            /\ Encodable(melody[current_melody_index + 1]))

RECURSIVE write_cells(_, _, _, _)
\* the loops of lines 67-71 and 82-86 as a function: the cells of remaining
\* units with the pitch byte pitch, written into data from index pos on
write_cells(data, pos, remaining, pitch) ==
    IF ~(remaining > 0 /\ pos < Len(data))
    THEN [data |-> data, pos |-> pos, remaining |-> remaining, raised |-> "none"]
    ELSE IF pos + 1 >= Len(data)
    THEN [data |-> SetAt(data, pos, min(remaining, MAX_ITEM_VALUE - 1)), pos |-> pos,
          remaining |-> remaining, raised |-> "IndexError"]
    ELSE write_cells(SetAt(SetAt(data, pos, min(remaining, MAX_ITEM_VALUE - 1)),
                           pos + 1, pitch),
                     pos + 2, remaining - min(remaining, MAX_ITEM_VALUE - 1), pitch)

RECURSIVE encode_notes(_, _, _, _, _)
RECURSIVE encode_written(_, _, _, _)
\* lines 57-97 as a function of the notes: what to_am32_startup_melody makes of
\* notes from note i on, data and codes being the buffer and the error codes so
\* far and pos the write index
encode_notes(notes, i, data, pos, codes) ==
    IF i > Len(notes) THEN [data |-> data, codes |-> codes, raised |-> "none"]
    ELSE IF pos >= Len(data)
    THEN encode_notes(notes, i + 1, data, pos, [codes EXCEPT ![i] = 2])
    ELSE IF ~Encodable(notes[i])
    THEN encode_notes(notes, i + 1, data, pos, [codes EXCEPT ![i] = 1])
    ELSE encode_written(notes, i, codes,
                        write_cells(data, pos, Units(notes[i]), PitchByte(notes[i])))

\* lines 73-76, 88-93 after the cells w of note i
encode_written(notes, i, codes, w) ==
    IF w.raised # "none" THEN [data |-> w.data, codes |-> codes, raised |-> w.raised]
    ELSE encode_notes(notes, i + 1, w.data, w.pos,
                      [codes EXCEPT ![i] = IF w.remaining > 0 THEN 2 ELSE 0])

\* to_am32_startup_melody on the notes of a parsed text, for a length of at least 4
encode_melody(notes, defaults, length) ==
    encode_notes(notes, 1, initial_result(defaults, length), 4, [i \in 1..Len(notes) |-> 0])

\* the notes without the pitched notes whose code does not fit a byte
Present(notes) == SelectSeq(notes, Encodable)

\* the place in Present(notes) of note i of notes
Rank(notes, i) == Cardinality({j \in 1..i : Encodable(notes[j])})

\* note i of notes is reached while the buffer of length bytes has room
ReachedWithRoom(notes, codes, i, length) ==
    /\ \A j \in 1..(i - 1) : codes[j] # 2
    /\ StartIndex(notes, i) < length

\* the call of to_am32_startup_melody has ended as kept says, kept being what
\* the function makes of the melody without the notes that do not fit
AsIfAbsent(kept) ==
    IF pc = "to_am32_raised"
    THEN kept.raised = raised /\ kept.data = result
    ELSE /\ kept.raised = "none"
         /\ kept.data = am32_melody.data
         /\ \A i \in 1..Len(melody) :
              IF Encodable(melody[i])
              THEN am32_melody.errorCodes[i] = kept.codes[Rank(melody, i)]
              ELSE am32_melody.errorCodes[i] =
                      IF ReachedWithRoom(melody, am32_melody.errorCodes, i,
                                         startup_melody_length)
                      THEN 1 ELSE 2

\* the call has ended, by a return or by the IndexError of a write
C19_Ended ==
    /\ job = "encode" /\ parsed_data.raised = "none" /\ startup_melody_length >= 4
    /\ pc \notin {"to_am32", "outer", "pulse_loop", "rest_loop", "mark"}
    /\ ~am32_melody.errorCodesNone \/ pc = "to_am32_raised"

C19_SameAsWithout ==
    C19_Ended
        => AsIfAbsent(encode_melody(Present(melody), parsed_data.defaults,
                                    startup_melody_length))

\* the pass of the outer loop on a pitched note whose code does not fit
C19_OutOfRangeStep ==
    (pc = "outer" /\ OuterCondition /\ ~Encodable(item))
        => /\ error_codes' = [error_codes EXCEPT ![current_melody_index + 1] = 1]
           /\ result' = result
           /\ current_result_index' = current_result_index
           /\ current_melody_index' = current_melody_index + 1
           /\ pc' = "outer"

\* C19: a pitched note reached while the buffer has room whose code is not in
\* (0,256) gets error code 1 and leaves every byte of the buffer and the write
\* index as they were, and the call ends with the data, the error codes of the
\* other notes, or the error, that the melody without that note gives.
C19_OutOfRangeSkipped == []C19_SameAsWithout /\ [][C19_OutOfRangeStep]_vars

\* a call returned after it skipped its first note and wrote its second
C19_Witness ==
    /\ EncodeReturned /\ ~am32_melody.errorCodesNone
    /\ am32_melody.errorCodes = <<1, 0>>
    /\ ~Encodable(melody[1])
    /\ At(am32_melody.data, 5) = PitchByte(melody[2])

(***************************************************************************)
(* Concurrent callers.  The module keeps no state of its own: the methods  *)
(* are static, and every name they assign is a local of one call.  Each    *)
(* caller runs one call; the steps of different callers interleave.        *)
(***************************************************************************)
MaxCallers == 2

CALLERS == 1..MaxCallers

CALL_TEXTS ==
    { <<>>,
      <<"a", ":", "c">>,
      <<"a", ":", ":", "c">>,
      <<"a", ":", "b", "=", "9", "0", "0", ":", "c">>,
      <<"a", ":", "d", "=", "8", ",", "o", "=", "5", ":", "c", ",", "p">>,
      <<"a", ":", "o", "=", "7", ",", "d", ":", "c">> }

CALL_LENGTHS == {3, 8}

CALL_BUFFERS == { <<0, 0, 0, 0>>, <<0, 63, 6, 4, 249, 23>> }

\* what a call gave: the error it raised, or what it returned
NoOut == [raised |-> "none", parsed |-> NoParse, am32 |-> NoReturn, string |-> <<>>]

\* parse returned or raised p
parse_out(p) == [NoOut EXCEPT !.raised = p.raised, !.parsed = p]

\* lines 99-102 (or the IndexError of lines 69, 84) for what the loops gave
encode_out(e) ==
    IF e.raised # "none" THEN [NoOut EXCEPT !.raised = e.raised]
    ELSE [NoOut EXCEPT !.am32 = [data |-> e.data, errorCodes |-> e.codes,
                                 errorCodesNone |-> FALSE]]

\* lines 40-102 for a text parse accepted
to_am32_encode(p, length) ==
    IF below_minimum_length(length) THEN [NoOut EXCEPT !.raised = "ValueError_too_small"]
    ELSE encode_out(encode_melody(p.melody, p.defaults, length))

\* lines 38-102, p being what parse returned or raised
to_am32_out(p, length) ==
    IF p.raised # "none" THEN [NoOut EXCEPT !.raised = p.raised]
    ELSE to_am32_encode(p, length)

\* lines 33-37
to_am32_empty ==
    [NoOut EXCEPT !.am32 = [data |-> bytearray(DEFAULT_LENGTH), errorCodes |-> <<>>,
                            errorCodesNone |-> TRUE]]

\* to_am32_startup_melody as a function of its arguments
to_am32_startup_melody(text, length) ==
    IF text = <<>> THEN to_am32_empty ELSE to_am32_out(parse(text), length)

\* from_am32_startup_melody returned or raised r
from_am32_out(r) == [NoOut EXCEPT !.raised = r.raised, !.string = r.string]

\* a call before its first step
NewCall(op, text, length, data) ==
    [op |-> op, text |-> text, length |-> length, data |-> data, pc |-> "start",
     SECTIONS |-> <<>>, VALUES |-> <<>>, DEFAULT_VALUES |-> DEFAULT_VALUES, out |-> NoOut]

NEW_CALLS ==
    {NewCall("parse", t, 0, <<>>) : t \in CALL_TEXTS}
        \cup {NewCall("to_am32", t, n, <<>>) : t \in CALL_TEXTS, n \in CALL_LENGTHS}
        \cup {NewCall("from_am32", <<>>, 0, b) : b \in CALL_BUFFERS}

MainVars == <<job, pc, raised, rtttl, value, startup_melody_length, parsed_data, result,
              error_codes, current_result_index, current_melody_index, temp3, pulses_needed,
              duration, am32_melody, startup_melody_data, melody_string, reparsed>>

InitCalls ==
    /\ calls \in [CALLERS -> NEW_CALLS]
    /\ job = "calls"
    /\ pc = "calls"
    /\ raised = "none"
    /\ rtttl = <<>>
    /\ value = <<>>
    /\ startup_melody_length = 0
    /\ startup_melody_data = <<>>
    /\ parsed_data = NoParse
    /\ result = <<>>
    /\ error_codes = <<>>
    /\ current_result_index = 0
    /\ current_melody_index = 0
    /\ temp3 = 0
    /\ pulses_needed = 0
    /\ duration = 0
    /\ am32_melody = NoReturn
    /\ melody_string = <<>>
    /\ reparsed = NoParse

\* the call of caller c ends with out
End(c, out) == calls' = [calls EXCEPT ![c].pc = "ended", ![c].out = out]

\* lines 33-37
CallReturnEmpty(c) ==
    /\ calls[c].pc = "start" /\ calls[c].op = "to_am32"
    /\ calls[c].text = <<>>
    /\ End(c, to_am32_empty)
    /\ UNCHANGED MainVars

\* lines 18-22 and 189-203 for the sections S: DEFAULT_VALUES is a new dict of
\* this call
CallSplitWith(c, S) ==
    IF Len(S) # REQUIRED_SECTIONS_NUM
    THEN End(c, IF calls[c].op = "parse"
                THEN parse_out(ParseFailure("ValueError_invalid_rtttl"))
                ELSE to_am32_out(ParseFailure("ValueError_invalid_rtttl"), calls[c].length))
    ELSE calls' = [calls EXCEPT ![c].pc = "defaults", ![c].SECTIONS = S,
                                ![c].VALUES = split(S[2], ","),
                                ![c].DEFAULT_VALUES = DEFAULT_VALUES]

\* lines 15-22, 189-203: parse up to the loop of get_defaults
CallSplit(c) ==
    /\ calls[c].pc = "start" /\ calls[c].op \in {"parse", "to_am32"}
    /\ ~(calls[c].op = "to_am32" /\ calls[c].text = <<>>)
    /\ CallSplitWith(c, split(calls[c].text, ":"))
    /\ UNCHANGED MainVars

\* CallDefaultsWith with one DEFAULT_VALUES for all the calls in get_defaults
CallDefaultsWith_shared(c, D) ==
    IF D.raised # "none"
    THEN End(c, IF calls[c].op = "parse" THEN parse_out(ParseFailure(D.raised))
                ELSE to_am32_out(ParseFailure(D.raised), calls[c].length))
    ELSE calls' = [d \in CALLERS |->
                     IF d = c
                     THEN [calls[c] EXCEPT !.VALUES = Tail(calls[c].VALUES),
                                           !.DEFAULT_VALUES = D]
                     ELSE IF calls[d].pc = "defaults"
                     THEN [calls[d] EXCEPT !.DEFAULT_VALUES = D]
                     ELSE calls[d]]

\* lines 205-213: the end of a pass that made D of DEFAULT_VALUES, or raised
CallDefaultsWith(c, D) ==
    IF D.raised # "none"
    THEN End(c, IF calls[c].op = "parse" THEN parse_out(ParseFailure(D.raised))
                ELSE to_am32_out(ParseFailure(D.raised), calls[c].length))
    ELSE calls' = [calls EXCEPT ![c].VALUES = Tail(calls[c].VALUES),
                                ![c].DEFAULT_VALUES = D]

\* lines 205-213: one pass of the loop of get_defaults
CallDefaultsPass(c) ==
    /\ calls[c].pc = "defaults"
    /\ calls[c].VALUES # <<>>
    /\ CallDefaultsWith(c, IF Head(calls[c].VALUES) = <<>> THEN calls[c].DEFAULT_VALUES
                           ELSE get_defaults_value(Head(calls[c].VALUES),
                                                   calls[c].DEFAULT_VALUES))
    /\ UNCHANGED MainVars

\* lines 215, 23-29 and, for to_am32_startup_melody, 40-102: p is what parse
\* returned or raised
CallParsed(c, p) ==
    End(c, IF calls[c].op = "parse" THEN parse_out(p) ELSE to_am32_out(p, calls[c].length))

\* the loop of get_defaults is over: get_defaults returns, and the rest of the
\* call uses only what it returned
CallDefaultsReturn(c) ==
    /\ calls[c].pc = "defaults"
    /\ calls[c].VALUES = <<>>
    /\ CallParsed(c, parse_melody(get_name(calls[c].SECTIONS[1]), calls[c].DEFAULT_VALUES,
                                  get_data(calls[c].SECTIONS[3], calls[c].DEFAULT_VALUES)))
    /\ UNCHANGED MainVars

\* lines 113-166
CallDecode(c) ==
    /\ calls[c].pc = "start" /\ calls[c].op = "from_am32"
    /\ \E noise \in NoiseVectors(calls[c].data) :
         End(c, from_am32_out(from_am32_startup_melody(calls[c].data, MELODY_NAME, noise)))
    /\ UNCHANGED MainVars

NextCalls ==
    \E c \in CALLERS :
        \/ CallReturnEmpty(c)
        \/ CallSplit(c)
        \/ CallDefaultsPass(c)
        \/ CallDefaultsReturn(c)
        \/ CallDecode(c)

SpecCalls == InitCalls /\ [][NextCalls]_vars

\* what the call of arguments a gives by itself
CallResults(a) ==
    IF a.op = "parse" THEN {parse_out(parse(a.text))}
    ELSE IF a.op = "to_am32" THEN {to_am32_startup_melody(a.text, a.length)}
    ELSE {from_am32_out(from_am32_startup_melody(a.data, MELODY_NAME, noise)) :
            noise \in NoiseVectors(a.data)}

SameArguments(a, b) ==
    a.op = b.op /\ a.text = b.text /\ a.length = b.length /\ a.data = b.data

\* C17: under any interleaving of calls of parse, to_am32_startup_melody and
\* from_am32_startup_melody, what a call returns or raises is what its own
\* arguments give, so that two calls of equal arguments end alike and the
\* defaults one call of parse set are not seen by another.
C17_CallsIndependent ==
    \A c \in CALLERS :
        calls[c].pc = "ended"
            => /\ calls[c].out \in CallResults(calls[c])
               /\ \A d \in CALLERS :
                    (calls[d].pc = "ended" /\ SameArguments(calls[c], calls[d]))
                        => calls[d].out = calls[c].out

\* two calls of parse ended, one having set a bpm of 900, the other, which
\* names no defaults, with the bpm of 63
C17_Witness ==
    /\ calls[1].pc = "ended" /\ calls[2].pc = "ended"
    /\ calls[1].op = "parse" /\ calls[2].op = "parse"
    /\ calls[1].out.raised = "none" /\ calls[2].out.raised = "none"
    /\ calls[1].out.parsed.defaults.bpm = <<"9", "0", "0">>
    /\ calls[2].text = <<"a", ":", ":", "c">>
    /\ calls[2].out.parsed.defaults.bpm = <<"6", "3">>

\* every note of the melody was written in full, in at least one cell
AllWritten ==
    /\ EncodeReturned /\ ~am32_melody.errorCodesNone
    /\ \A i \in 1..Len(melody) : am32_melody.errorCodes[i] = 0 /\ CellCount(melody[i]) >= 1

\* the logical note the decoder makes of all the cells of a source note
LogicalNoteOf(note, freq) ==
    [duration |-> cell_duration(Units(note), freq, _calculate_note_name_from_frequency(freq),
                                _calculate_note_octave_from_frequency(freq)),
     frequency |-> freq,
     musicalNote |-> _calculate_note_name_from_frequency(freq),
     musicalOctave |-> _calculate_note_octave_from_frequency(freq)]

\* the loop of lines 127-144 gave cells: one logical note per note of notes
OnePerNote(notes, cells) ==
    /\ cells.raised = "none"
    /\ Len(cells.notes) = Len(notes)
    /\ \A i \in 1..Len(notes) :
         cells.notes[i] =
            LogicalNoteOf(notes[i], _calculate_frequency_from_am32_temp3(PitchByte(notes[i])))

\* the decoder has a name for the pitch of every note
AllNamed(notes) ==
    \A i \in 1..Len(notes) :
        notes[i].frequency # 0
            => note_index(_calculate_frequency_from_am32_temp3(PitchByte(notes[i])))
                  < Len(NOTE_ORDER)

\* no note that takes a multiple of 255 pulses is followed by a note of its pitch
NoFullCellBeforeSamePitch(notes) ==
    \A i \in 1..(Len(notes) - 1) :
        ~(PitchByte(notes[i]) = PitchByte(notes[i + 1])
            /\ Units(notes[i]) % (MAX_ITEM_VALUE - 1) = 0)

\* C21: for every melody whose notes are all written with error code 0 and at
\* least one cell each, the decoder builds exactly one logical note per source
\* note, in the same order, out of all the cells of that note and no others,
\* also when two consecutive notes have the same pitch and the first one takes
\* a multiple of 255 pulses.
C21_OneLogicalNotePerNote ==
    AllWritten => OnePerNote(melody, melody_notes_loop(am32_melody.data, 4, <<>>))

\* what C21 says holds when the decoder names every pitch and no note that
\* takes a multiple of 255 pulses is followed by a note of its pitch
C21_OnePerNoteWhenApart ==
    (AllWritten /\ AllNamed(melody) /\ NoFullCellBeforeSamePitch(melody))
        => OnePerNote(melody, melody_notes_loop(am32_melody.data, 4, <<>>))

\* the cells of two notes of one pitch became one logical note
C21_Merged ==
    /\ AllWritten /\ AllNamed(melody) /\ Len(melody) = 2
    /\ Len(melody_notes_of(am32_melody.data)) = 1

\* the cells of a buffer: cell k is the bytes of index 4 + 2 * (k - 1) and the next
CellsIn(data) == IF Len(data) < 4 THEN 0 ELSE (Len(data) - 4) \div 2

CountByte(data, k) == At(data, 2 + 2 * k)

CellFrequency(data, k) == _calculate_frequency_from_am32_temp3(At(data, 3 + 2 * k))

\* dur of cell k, for a pitch the decoder names
CellDuration(data, k) ==
    cell_duration(CountByte(data, k), CellFrequency(data, k),
                  _calculate_note_name_from_frequency(CellFrequency(data, k)),
                  _calculate_note_octave_from_frequency(CellFrequency(data, k)))

\* the cells before the first cell of count 0
LiveCells(data) ==
    Cardinality({k \in 1..CellsIn(data) : \A j \in 1..k : CountByte(data, j) > 0})

\* cell k goes on with the note of the cell before it
Continues(data, k) ==
    /\ k > 1
    /\ CountByte(data, k - 1) = MAX_ITEM_VALUE - 1
    /\ abs(CellFrequency(data, k) - CellFrequency(data, k - 1)) < 10

\* the place among the logical notes of the note that cell k belongs to
NoteOfCell(data, k) == Cardinality({j \in 1..k : ~Continues(data, j)})

RECURSIVE NoteDuration(_, _, _)
\* the sum of the durations of the cells 1..m that belong to logical note n
NoteDuration(data, m, n) ==
    IF m = 0 THEN 0
    ELSE NoteDuration(data, m - 1, n)
         + (IF NoteOfCell(data, m) = n THEN CellDuration(data, m) ELSE 0)

\* from_am32_startup_melody has run its loop of lines 127-144 to its end
CellsWalked ==
    /\ pc \in {"parse", "from_am32_raised"} /\ raised # "IndexError"
    /\ Len(startup_melody_data) >= 4 /\ ~AllZero(startup_melody_data)

\* notes are the logical notes the rule gives for data
ByTheRule(data, notes) ==
    /\ Len(notes) = Cardinality({k \in 1..LiveCells(data) : ~Continues(data, k)})
    /\ \A k \in 1..LiveCells(data) :
         /\ notes[NoteOfCell(data, k)].frequency = CellFrequency(data, k)
         /\ notes[NoteOfCell(data, k)].duration
               = NoteDuration(data, LiveCells(data), NoteOfCell(data, k))

\* C22: a cell of positive duration is added to the previous logical note
\* exactly when there is one, the count byte of the cell just before is 255 and
\* the frequencies differ by less than 0.01 Hz; otherwise, and always for the
\* first cell whatever the header, it starts a new logical note.
C22_CoalescingRule ==
    CellsWalked => ByTheRule(startup_melody_data, melody_notes_of(startup_melody_data))

\* a buffer whose octave byte is 255 was decoded: its first cell began a note
\* and its second cell, after a count of 255, was added to it
C22_Witness ==
    /\ CellsWalked /\ LiveCells(startup_melody_data) = 2
    /\ At(startup_melody_data, 2) = 255
    /\ Continues(startup_melody_data, 2)
    /\ Len(melody_notes_of(startup_melody_data)) = 1

\* from_am32_startup_melody has returned the text of a buffer with a header
Decoded ==
    /\ pc = "parse"
    /\ Len(startup_melody_data) >= 4 /\ ~AllZero(startup_melody_data)

\* the 1/128 parts of a full note a token denotes in RTTTL
Denoted(token) ==
    IF token.is_dotted_note THEN 192 \div token.rtttl_duration
    ELSE 128 \div token.rtttl_duration

RECURSIVE SumDenoted(_)
SumDenoted(tokens) ==
    IF tokens = <<>> THEN 0 ELSE Denoted(Head(tokens)) + SumDenoted(Tail(tokens))

DURATION_CODES == {1, 2, 4, 8, 16, 32, 64}

\* the tokens of a note of q steps denote q steps in all
Decomposed(q, tokens) ==
    /\ Len(tokens) >= 1
    /\ SumDenoted(tokens) = 2 * q
    /\ \A t \in 1..Len(tokens) : tokens[t].rtttl_duration \in DURATION_CODES

\* the quantized duration of logical note k of data, in 1/64 of a full note
QuantizedOf(data, k) ==
    quantized_steps(melody_notes_of(data)[k].duration, header_defaults(data).bpm)

\* C23: for every logical note of quantized duration q, a positive multiple of
\* 1/64 of a full note, at least one token is emitted, the durations the tokens
\* denote (1/d of a full note, times 1.5 when dotted) sum to q, and every
\* duration code d is a power of two between 1 and 64.
C23_GreedyDecomposition ==
    Decoded
        => \A k \in 1..Len(melody_notes_of(startup_melody_data)) :
              QuantizedOf(startup_melody_data, k) >= 1
                 => \A delta \in NoiseChoices(QuantizedOf(startup_melody_data, k)) :
                       Decomposed(QuantizedOf(startup_melody_data, k),
                                  duration_tokens(QuantizedOf(startup_melody_data, k), delta))

\* what holds of the tokens: every duration code is a power of two between 1
\* and 64, and a note of two steps or more has a token
C23_DurationCodes ==
    Decoded
        => \A k \in 1..Len(melody_notes_of(startup_melody_data)) :
              \A delta \in NoiseChoices(QuantizedOf(startup_melody_data, k)) :
                 /\ QuantizedOf(startup_melody_data, k) >= 2
                      => Len(duration_tokens(QuantizedOf(startup_melody_data, k), delta)) >= 1
                 /\ \A t \in 1..Len(duration_tokens(QuantizedOf(startup_melody_data, k), delta)) :
                      duration_tokens(QuantizedOf(startup_melody_data, k), delta)[t].rtttl_duration
                          \in DURATION_CODES

\* C24: from_am32_startup_melody is total on buffers of at least 4 bytes: for
\* every content, a header with both bpm bytes 0 and some other byte not 0 and
\* every pitch code 0..255 included, it returns a string and raises no error.
C24_DecoderTotal ==
    (DecodeEnded /\ Len(startup_melody_data) >= 4) => pc # "from_am32_raised"

\* the decoder returns when the bpm of the header is not 0 and it has a name
\* for the pitch of every cell it walks, the first cell of count 0 included
C24_TotalWhenNamed ==
    (/\ DecodeEnded /\ Len(startup_melody_data) >= 4
     /\ header_defaults(startup_melody_data).bpm # 0
     /\ \A k \in 1..min(LiveCells(startup_melody_data) + 1, CellsIn(startup_melody_data)) :
           At(startup_melody_data, 3 + 2 * k) = 0
              \/ note_index(CellFrequency(startup_melody_data, k)) < Len(NOTE_ORDER))
        => pc # "from_am32_raised"

\* the decoder gives the pitch class and the octave of note back from the
\* frequency freq of its pitch byte
PitchBack(note, freq) ==
    IF note.frequency = 0
    THEN /\ PitchByte(note) = 0
         /\ _calculate_note_name_from_frequency(freq) = REST
         /\ _calculate_note_octave_from_frequency(freq) = 0
    ELSE /\ note_index(freq) < Len(NOTE_ORDER)
         /\ _calculate_note_name_from_frequency(freq) = note.note
         /\ calculate_frequency(note.note, _calculate_note_octave_from_frequency(freq))
               = note.frequency

\* parse gave note i of the melody, a rest or a note whose code lies in (0,256)
PitchParsed(i) ==
    /\ job = "encode" /\ pc # "to_am32" /\ parsed_data.raised = "none"
    /\ i \in 1..Len(melody)
    /\ Encodable(melody[i])

\* C25: for every pitched note, pitch class c..b and octave 1..8, whose code
\* lies in (0,256), decoding the code gives back the same pitch class and the
\* same octave; a rest has pitch byte 0, which decodes to 'p' with octave 0.
C25_PitchRoundTrip ==
    \A i \in 1..MaxNotes :
        PitchParsed(i)
            => PitchBack(melody[i], _calculate_frequency_from_am32_temp3(PitchByte(melody[i])))

\* the pitch comes back for every rest and every note from c4 up
C25_PitchBackFromC4 ==
    \A i \in 1..MaxNotes :
        (PitchParsed(i) /\ (melody[i].frequency = 0
                           \/ melody[i].frequency >= calculate_frequency(<<"c">>, 4)))
            => PitchBack(melody[i], _calculate_frequency_from_am32_temp3(PitchByte(melody[i])))

\* the note tokens of a text of three sections
NoteTokens(text) == split(split(text, ":")[3], ",")

\* the place in the parsed melody of token k, a token NOTE_REGEX matches
PlaceOf(tokens, k) == Cardinality({j \in 1..k : NOTE_REGEX_match(tokens[j]).matched})

\* the duration of a note of m with dots dots, by the defaults of the text
DurationWithDots(m, defaults, dots) ==
    calculate_duration(int(defaults.bpm),
                       IF m.g1 # <<>> THEN int(m.g1) ELSE int(defaults.duration), dots)

\* parse has returned the notes of the text
Parsed == job = "encode" /\ pc # "to_am32" /\ parsed_data.raised = "none"

\* C26: the dots written before the octave digit of a note token and the dots
\* written after it are both counted and the counts added: the duration of the
\* note is 240000 / bpm / duration value times 1, 1.5, 1.75, 1.875 or 1.9375
\* for 0, 1, 2, 3 or 4 dots in all.
C26_DotsAdded ==
    Parsed
        => \A k \in 1..Len(NoteTokens(rtttl)) :
              (/\ NOTE_REGEX_match(NoteTokens(rtttl)[k]).matched
               /\ NOTE_REGEX_match(NoteTokens(rtttl)[k]).g3
                    + NOTE_REGEX_match(NoteTokens(rtttl)[k]).g5 <= 4)
                 => melody[PlaceOf(NoteTokens(rtttl), k)].duration
                       = DurationWithDots(NOTE_REGEX_match(NoteTokens(rtttl)[k]),
                                          parsed_data.defaults,
                                          NOTE_REGEX_match(NoteTokens(rtttl)[k]).g3
                                            + NOTE_REGEX_match(NoteTokens(rtttl)[k]).g5)

\* the dots are counted as C26 says when they are all on one side of the octave
C26_DotsOnOneSide ==
    Parsed
        => \A k \in 1..Len(NoteTokens(rtttl)) :
              (/\ NOTE_REGEX_match(NoteTokens(rtttl)[k]).matched
               /\ NOTE_REGEX_match(NoteTokens(rtttl)[k]).g3
                    + NOTE_REGEX_match(NoteTokens(rtttl)[k]).g5 <= 4
               /\ \/ NOTE_REGEX_match(NoteTokens(rtttl)[k]).g3 = 0
                  \/ NOTE_REGEX_match(NoteTokens(rtttl)[k]).g5 = 0)
                 => melody[PlaceOf(NoteTokens(rtttl), k)].duration
                       = DurationWithDots(NOTE_REGEX_match(NoteTokens(rtttl)[k]),
                                          parsed_data.defaults,
                                          NOTE_REGEX_match(NoteTokens(rtttl)[k]).g3
                                            + NOTE_REGEX_match(NoteTokens(rtttl)[k]).g5)

\* the header and the cells before the first cell of count 0
LivePart(data) == SubSeq(data, 1, 4 + 2 * LiveCells(data))

RECURSIVE TotalDuration(_)
TotalDuration(notes) ==
    IF notes = <<>> THEN 0 ELSE Head(notes).duration + TotalDuration(Tail(notes))

RECURSIVE LiveDuration(_, _)
\* the sum of the durations of the cells 1..m
LiveDuration(data, m) ==
    IF m = 0 THEN 0 ELSE LiveDuration(data, m - 1) + CellDuration(data, m)

\* C27: from_am32_startup_melody walks the cells in the order of the buffer and
\* stops at the first cell of count 0: the logical notes are those of the cells
\* before it, whatever follows, and every cell before it is in exactly one
\* logical note.
C27_StopsAtZeroCell ==
    CellsWalked
        => /\ melody_notes_of(startup_melody_data)
                = melody_notes_loop(LivePart(startup_melody_data), 4, <<>>).notes
           /\ TotalDuration(melody_notes_of(startup_melody_data))
                = LiveDuration(startup_melody_data, LiveCells(startup_melody_data))
           /\ \A k \in 1..LiveCells(startup_melody_data) :
                NoteOfCell(startup_melody_data, k)
                    \in 1..Len(melody_notes_of(startup_melody_data))

\* a buffer with a cell of pulses after its first cell of count 0 was decoded
\* to the one note of the cell before
C27_Witness ==
    /\ Decoded
    /\ CellsIn(startup_melody_data) = 3 /\ LiveCells(startup_melody_data) = 1
    /\ CountByte(startup_melody_data, 3) > 0
    /\ Len(melody_notes_of(startup_melody_data)) = 1
    /\ melody_string = <<"m", ":", "b", "=", "6", "3", ",", "o", "=", "6", ",", "d", "=", "4",
                          ":", "1", "6", "c">>

\* a token as C28 describes it: the duration code unless it is that of the
\* header, the note, the octave unless it is that of the header or 0, the dot
TokenText(token, logical, defaults) ==
    (IF token.rtttl_duration # defaults.duration THEN str(token.rtttl_duration) ELSE <<>>)
    \o logical.musicalNote
    \o (IF logical.musicalOctave # defaults.octave /\ logical.musicalOctave # 0
        THEN str(logical.musicalOctave) ELSE <<>>)
    \o (IF token.is_dotted_note THEN <<".">> ELSE <<>>)

\* the tokens of one logical note
TokenTextsOf(tokens, logical, defaults) ==
    [t \in 1..Len(tokens) |-> TokenText(tokens[t], logical, defaults)]

RECURSIVE TokenTexts(_, _, _, _)
\* the tokens of the logical notes from note k on
TokenTexts(notes, k, defaults, noise) ==
    IF k > Len(notes) THEN <<>>
    ELSE TokenTextsOf(duration_tokens(quantized_steps(notes[k].duration, defaults.bpm),
                                      noise[k]),
                      notes[k], defaults)
         \o TokenTexts(notes, k + 1, defaults, noise)

\* '<name>:b=<bpm>,o=<octave>,d=<duration>:' and the tokens with a comma between
\* each two
Formatted(name, defaults, texts) ==
    name \o <<":", "b", "=">> \o str(defaults.bpm) \o <<",", "o", "=">> \o str(defaults.octave)
         \o <<",", "d", "=">> \o str(defaults.duration) \o <<":">> \o join(texts, ",")

\* text is the output C28 describes for data
InFormat(data, text) ==
    \E noise \in NoiseVectors(data) :
        text = Formatted(MELODY_NAME, header_defaults(data),
                         TokenTexts(melody_notes_of(data), 1, header_defaults(data), noise))

\* C28: for a buffer of at least 4 bytes that is not all zero the result of
\* from_am32_startup_melody is '<name>:b=<bpm>,o=<octave>,d=<duration>:' and
\* the tokens joined by single commas, with no comma at the end; a token has a
\* duration prefix exactly when its duration code is not that of the header,
\* and an octave suffix exactly when its octave is neither that of the header
\* nor 0.
C28_OutputFormat ==
    (DecodeEnded /\ Len(startup_melody_data) >= 4 /\ ~AllZero(startup_melody_data))
        => pc # "from_am32_raised" /\ InFormat(startup_melody_data, melody_string)

\* every text the decoder returns for such a buffer has the format of C28
C28_FormatWhenReturned ==
    Decoded => InFormat(startup_melody_data, melody_string)

\* a returned text of two tokens, the first with a duration prefix and an
\* octave suffix
C28_TwoTokens ==
    /\ Decoded
    /\ \E noise \in NoiseVectors(startup_melody_data) :
         /\ Len(TokenTexts(melody_notes_of(startup_melody_data), 1,
                           header_defaults(startup_melody_data), noise)) = 2
         /\ Len(TokenTexts(melody_notes_of(startup_melody_data), 1,
                           header_defaults(startup_melody_data), noise)[1]) >= 3

\* the notes the outer loop and the loop of line 95 have given a code
Coded == 1..min(current_melody_index, Len(error_codes))

\* in the error codes returned, every note after a note of code 2 has code 2
C29_SuffixOfTwos ==
    (EncodeReturned /\ ~am32_melody.errorCodesNone)
        => \A i \in 1..Len(am32_melody.errorCodes) :
              am32_melody.errorCodes[i] = 2
                 => \A j \in i..Len(am32_melody.errorCodes) : am32_melody.errorCodes[j] = 2

\* once a note has been given code 2 no step writes to the buffer or moves the
\* write index, and every code given is 2
C29_NoWriteAfterTwo ==
    (job = "encode" /\ pc \in {"outer", "pulse_loop", "rest_loop", "mark"}
        /\ \E i \in Coded : error_codes[i] = 2)
        => /\ result' = result
           /\ current_result_index' = current_result_index
           /\ \A j \in 1..Len(error_codes) : error_codes'[j] # error_codes[j] => error_codes'[j] = 2

\* C29: in the error codes to_am32_startup_melody returns the entries equal to
\* 2 form a suffix: after the first note of code 2 every note has code 2, the
\* codes 0 and 1 occur only before it, and once that code is given no byte of
\* the buffer is changed any more.
C29_TwosFormSuffix == []C29_SuffixOfTwos /\ [][C29_NoWriteAfterTwo]_vars

\* a call returned the code 0 or 1 for its first note and 2 for its second, a
\* note the buffer had no room left for
C29_Witness ==
    /\ EncodeReturned /\ ~am32_melody.errorCodesNone
    /\ Len(am32_melody.errorCodes) = 2
    /\ am32_melody.errorCodes[1] \in {0, 1} /\ am32_melody.errorCodes[2] = 2
    /\ Encodable(melody[2])

\* the steps of the loops of to_am32_startup_melody, lines 57-102
EncoderLoops ==
    \/ StartPitched
    \/ OutOfRange
    \/ EmitPulseCell
    \/ EndPitched
    \/ StartRest
    \/ EmitRestCell
    \/ EndRest
    \/ LeaveOuter
    \/ MarkRemaining
    \/ Return

\* a call that is in its loops runs on: the step it can take is taken
FairSpec == Spec /\ WF_vars(EncoderLoops)

\* to_am32_startup_melody is in its loops
InLoops == job = "encode" /\ pc \in {"outer", "pulse_loop", "rest_loop", "mark"}

\* to_am32_startup_melody has returned, or raised the IndexError of a write
LoopsLeft == job = "encode" /\ pc \in {"from_am32", "to_am32_raised"}

\* a pass of a loop that writes cells takes 1..255 off what remains and moves
\* the write index by 2; a pass of the outer loop, and of the loop of line 95,
\* moves the note index by 1
C30_LoopsAdvance ==
    /\ (pc = "pulse_loop" /\ pc' = "pulse_loop")
          => /\ pulses_needed - pulses_needed' \in 1..(MAX_ITEM_VALUE - 1)
             /\ pulses_needed' >= 0
             /\ current_result_index' = current_result_index + 2
    /\ (pc = "rest_loop" /\ pc' = "rest_loop")
          => /\ duration - duration' \in 1..(MAX_ITEM_VALUE - 1)
             /\ duration' >= 0
             /\ current_result_index' = current_result_index + 2
    /\ (pc \in {"outer", "pulse_loop", "rest_loop"} /\ pc' = "outer")
          => current_melody_index' = current_melody_index + 1
    /\ (pc = "mark" /\ pc' = "mark") => current_melody_index' = current_melody_index + 1
    /\ (pc \in {"outer", "pulse_loop", "rest_loop", "mark"} /\ pc' # "to_am32_raised")
          => /\ current_melody_index' <= Len(melody)
             /\ current_result_index' <= Len(result) + 1

\* every pass of the loop of lines 156-164 takes a positive part off the rest of
\* a note of q steps of 1/64, and there are at most ceil(q / 96) + 1 passes: 96
\* steps are 1.5 full notes
TokensBounded(q, tokens) ==
    /\ \A t \in 1..Len(tokens) : tokens[t].steps >= 1
    /\ Len(tokens) <= ((q + 95) \div 96) + 1

C30_TokensBounded ==
    Decoded
        => \A k \in 1..Len(melody_notes_of(startup_melody_data)) :
              \A delta \in NoiseChoices(QuantizedOf(startup_melody_data, k)) :
                 TokensBounded(QuantizedOf(startup_melody_data, k),
                               duration_tokens(QuantizedOf(startup_melody_data, k), delta))

\* C30: every call terminates: to_am32_startup_melody leaves its loops, each
\* pass of a loop that writes cells taking 1..255 off the remaining pulses and
\* moving the write index by 2 and each pass of the outer loop moving the note
\* index by 1; in from_am32_startup_melody the loop that writes the tokens of a
\* logical note of quantized duration q (in full notes) takes a positive part
\* off the rest on every pass and writes at most ceil(q / 1.5) + 1 tokens.
C30_Terminates ==
    /\ InLoops ~> LoopsLeft
    /\ [][C30_LoopsAdvance]_vars
    /\ []C30_TokensBounded

\* a call whose loop of lines 67-71 made 7 passes for one note ended, and so
\* did the decoding of its cells, with two tokens for one logical note
C30_Witness ==
    /\ rtttl = SAME_PITCH_TEXT /\ pc = "done"
    /\ am32_melody.errorCodes = <<0, 0>>
    /\ CellCount(melody[1]) = 7
    /\ Len(melody_notes_of(startup_melody_data)) = 1

====
